---- MODULE Spec2Model ----
(***************************************************************************)
(* Pipeline execution and invalidation engine of revng.                    *)
(*                                                                         *)
(* The state is one Runner: its ordered Steps, each with a ContainerSet    *)
(* (container name -> set of concrete Targets), the GlobalsMap with the    *)
(* single Global "model", the containers materialized so far, and the      *)
(* record of the last call with the Pipe invocations it made.  Further     *)
(* specifications cover the GlobalsMap and its persistence (store), the    *)
(* artifact driver (driver) and the ABI definitions (abi).                 *)
(*                                                                         *)
(* InvalidationEventBase::apply / ::getInvalidations, GlobalsMap::diff and *)
(* the artifact driver are translated from the sources.  Runner::run,      *)
(* Runner::runAnalysis, Runner::getInvalidations, Runner::invalidate, the  *)
(* Kind and Pipe registries have no source in this tree and follow the     *)
(* design document (sections 4.1-4.4).                                     *)
(***************************************************************************)
EXTENDS Integers, Sequences, FiniteSets, TLC

VARIABLES globals, steps, allocated, last, store, driver, abi, yield

vars == <<globals, steps, allocated, last, store, driver, abi, yield>>

\* the part of the state a component does not use stays at this value
Idle == "idle"

\* the state outside the Runner: the persisted GlobalsMaps, the artifact
\* driver, the process-wide ABI definitions, the yield::Function rendered
others == <<store, driver, abi, yield>>

(***************************************************************************)
(* Bounds                                                                  *)
(***************************************************************************)
\* number of function addresses the binary model can hold
MaxFunctions == 2

(***************************************************************************)
(* Registry: Ranks, Kinds, Containers, Steps, Pipes, Analyses              *)
(***************************************************************************)
AddressNames == <<"0x1000", "0x2000", "0x3000", "0x4000">>

Addresses == {AddressNames[i] : i \in 1..MaxFunctions}

Wildcard == "*"

\* Rank depth of every Kind: root rank has depth 0, function rank depth 1
RankDepth == [Binary |-> 0, Root |-> 0, Function |-> 1]

\* the Kind registry, in registration order
KindsRegistry == <<"Binary", "Root", "Function">>

ContainerNames == {"input", "model", "functions", "decompiled"}

StepOrder == <<"begin", "Lift", "Decompile">>

StepNames == {StepOrder[i] : i \in 1..Len(StepOrder)}

StepIndex(name) == CHOOSE i \in 1..Len(StepOrder) : StepOrder[i] = name

BinaryT == [kind |-> "Binary", path |-> <<>>]

RootT == [kind |-> "Root", path |-> <<>>]

FunctionT(a) == [kind |-> "Function", path |-> <<a>>]

\* every concrete Target of the registry's Kinds
ConcreteTargets == {BinaryT, RootT} \cup {FunctionT(a) : a \in Addresses}

\* a Pipe reads Targets of one Kind from one Container and writes Targets of
\* one Kind into another
Pipes ==
  [Lift      |-> [from |-> "input",     fromKind |-> "Binary",
                  to   |-> "model",     toKind   |-> "Root"],
   Isolate   |-> [from |-> "model",     fromKind |-> "Root",
                  to   |-> "functions", toKind   |-> "Function"],
   Decompile |-> [from |-> "functions", fromKind |-> "Function",
                  to   |-> "decompiled", toKind  |-> "Function"]]

PipeNames == DOMAIN Pipes

\* the ordered Pipes of every Step
StepPipes == [begin |-> <<>>, Lift |-> <<"Lift">>,
              Decompile |-> <<"Isolate", "Decompile">>]

(***************************************************************************)
(* Globals                                                                 *)
(***************************************************************************)
GlobalNames == {"model"}

Absent == "none"

\* the default value of the model Global (TupleTreeGlobal::clear)
DefaultModel == [Arch |-> 0, Functions |-> [a \in Addresses |-> Absent]]

\* ::diff(*Value, *Casted.Value): the paths whose values differ
TupleTreeGlobal_diff(old, new) ==
  (IF old.Arch # new.Arch THEN {"Arch"} ELSE {})
    \cup {a \in Addresses : old.Functions[a] # new.Functions[a]}

\* GlobalsMap::diff: one entry per Global name of the receiver
GlobalsMap_diff(this, other) ==
  [n \in DOMAIN this |-> TupleTreeGlobal_diff(this[n], other[n])]

PresentFunctions(g) == {a \in Addresses : g["model"].Functions[a] # Absent}

(***************************************************************************)
(* ContainerToTargetsMap helpers                                           *)
(***************************************************************************)
EmptyMap == [c \in ContainerNames |-> {}]

MapUnion(a, b) == [c \in ContainerNames |-> a[c] \cup b[c]]

MapDiff(a, b) == [c \in ContainerNames |-> a[c] \ b[c]]


IsEmptyMap(a) == \A c \in ContainerNames : a[c] = {}

Single(c, t) == [EmptyMap EXCEPT ![c] = {t}]

(***************************************************************************)
(* Targets: expansion and filtering                                        *)
(***************************************************************************)
IsConcrete(t) == \A i \in 1..Len(t.path) : t.path[i] # Wildcard

\* a (possibly wildcard) Target covers a concrete one
Matches(r, t) ==
  /\ r.kind = t.kind
  /\ Len(r.path) = Len(t.path)
  /\ \A i \in 1..Len(r.path) : r.path[i] \in {Wildcard, t.path[i]}

\* the functions of the model from the i-th address on, in address order
RECURSIVE FunctionsFrom(_, _)
FunctionsFrom(g, i) ==
  IF i > MaxFunctions THEN <<>>
  ELSE (IF AddressNames[i] \in PresentFunctions(g)
          THEN <<FunctionT(AddressNames[i])>> ELSE <<>>)
         \o FunctionsFrom(g, i + 1)

\* an expansion that takes every Target for a wildcard
Target_expandAll(t, g) == FunctionsFrom(g, 1)

\* Target::expand: the list of the concrete Targets a Target stands for
Target_expand(t, g) ==
  IF IsConcrete(t) THEN <<t>> ELSE FunctionsFrom(g, 1)

\* expand(Target, context) as the set of the Targets of that list; the
\* enumerable domain of the function rank is the model's function list
Expand(t, g) ==
  IF IsConcrete(t) THEN {t}
  ELSE {FunctionT(a) : a \in PresentFunctions(g)}

ExpandMap(request, g) ==
  [c \in ContainerNames |-> UNION {Expand(t, g) : t \in request[c]}]

\* cloneFiltered: the subset of a container the given Targets cover; the
\* source container is an argument and is not changed
cloneFiltered(container, targets) ==
  {t \in container : \E r \in targets : Matches(r, t)}

(***************************************************************************)
(* Pipes                                                                   *)
(***************************************************************************)
\* the input Target a Pipe needs to produce an output Target
PipeInput(p, t) ==
  [kind |-> p.fromKind, path |-> SubSeq(t.path, 1, RankDepth[p.fromKind])]

\* backward deduction over one Pipe: its outputs among the goals are
\* replaced by the inputs they need
PipeRequirements(p, goals) ==
  LET produced == {t \in goals[p.to] : t.kind = p.toKind}
  IN [c \in ContainerNames |->
        (IF c = p.to THEN goals[c] \ produced ELSE goals[c])
          \cup (IF c = p.from THEN {PipeInput(p, t) : t \in produced} ELSE {})]

\* a Pipe working on a function needs that function to be in the model
PipePrecondition(targets, g) ==
  \A t \in targets :
     RankDepth[t.kind] = 1 => t.path[1] \in PresentFunctions(g)

(***************************************************************************)
(* Runner::run (design document, section 4.3)                              *)
(***************************************************************************)
\* goals left when only the committed input container is consulted
RemoveSatisfiedInputOnly(goals, committed) ==
  [c \in ContainerNames |->
     IF c = "input" THEN goals[c] \ committed[c] ELSE goals[c]]

\* goals left after dropping what the committed state already materializes
RemoveSatisfied(goals, committed) == MapDiff(goals, committed)

\* the outputs a Pipe is asked to produce for these goals
PipeAsked(p, goals) == {t \in goals[p.to] : t.kind = p.toKind}

\* one Step, Pipes walked from the last (index i) to the first: st.goals are
\* the Targets still to obtain, st.asked the Pipe invocations in execution
\* order, st.touched everything the Step will hold once it has run
RECURSIVE analyzeGoals(_, _, _, _)
analyzeGoalsOver(committed, step, i, st, asked, req) ==
  analyzeGoals(committed, step, i - 1,
    [goals |-> req,
     asked |-> IF asked = {} THEN st.asked
               ELSE <<[pipe |-> StepPipes[step][i], step |-> step,
                       targets |-> asked]>> \o st.asked,
     touched |-> MapUnion(st.touched, req)])

analyzeGoals(committed, step, i, st) ==
  IF i = 0 THEN st
  ELSE analyzeGoalsOver(committed, step, i, st,
         PipeAsked(Pipes[StepPipes[step][i]], st.goals),
         RemoveSatisfied(PipeRequirements(Pipes[StepPipes[step][i]],
                                          st.goals), committed))

NoTouched == [s \in StepNames |-> EmptyMap]

InitialGoals(g0) == [goals |-> g0, asked |-> <<>>, touched |-> g0]

\* a plan that runs the Pipes of Step s before those of the Steps before it
ChainPlanLaterFirst(r, s, st) ==
  [ok |-> r.ok, exec |-> st.asked \o r.exec,
   touched |-> [r.touched EXCEPT ![s] = st.touched]]

\* the plan of Step s appended to the plan r of the Steps before it
ChainPlan(r, s, st) ==
  [ok |-> r.ok, exec |-> r.exec \o st.asked,
   touched |-> [r.touched EXCEPT ![s] = st.touched]]

\* a walk that stops at the requested Step and takes the rest as cached
getObjectivesFromThisStepOnly(committed, k, st) ==
  [ok |-> TRUE, exec |-> st.asked,
   touched |-> [NoTouched EXCEPT ![StepOrder[k]] = st.touched]]

\* walk the chain backward from Step k until a Step's committed state
\* materializes everything needed; exec is the forward execution plan
RECURSIVE getObjectives(_, _, _)
getObjectivesFrom(committed, k, st) ==
  IF IsEmptyMap(st.goals)
    THEN [ok |-> TRUE, exec |-> st.asked,
          touched |-> [NoTouched EXCEPT ![StepOrder[k]] = st.touched]]
  ELSE IF k = 1
    THEN [ok |-> FALSE, exec |-> <<>>, touched |-> NoTouched]
  ELSE ChainPlan(getObjectives(committed, k - 1, st.goals), StepOrder[k], st)

getObjectives(committed, k, goals) ==
  getObjectivesFrom(committed, k,
    analyzeGoals(committed[StepOrder[k]], StepOrder[k],
                 Len(StepPipes[StepOrder[k]]),
                 InitialGoals(RemoveSatisfied(goals,
                                              committed[StepOrder[k]]))))

\* index of the first invocation that fails (0 when none does): the Pipe
\* named failPipe fails, and so does a Pipe whose precondition is violated
FirstFailure(exec, failPipe, g) ==
  LET bad == {j \in 1..Len(exec) :
                \/ exec[j].pipe = failPipe
                \/ ~PipePrecondition(exec[j].targets, g)}
  IN IF bad = {} THEN 0 ELSE CHOOSE j \in bad : \A i \in bad : j <= i

\* a commit that keeps the results of the Steps whose Pipes all ran before
\* the failure
CommitPartial(committed, plan, failed) ==
  [s \in StepNames |->
     IF failed = 0 \/ \E j \in 1..(failed - 1) : plan.exec[j].step = s
       THEN MapUnion(committed[s], plan.touched[s]) ELSE committed[s]]

\* a commit that drops the staged results of the requested Step
CommitEarlierSteps(committed, plan, failed) ==
  [s \in StepNames |->
     IF failed = 0 /\ \E j \in 1..Len(plan.exec) : plan.exec[j].step = s
                  /\ plan.exec[Len(plan.exec)].step # s
       THEN MapUnion(committed[s], plan.touched[s]) ELSE committed[s]]

\* the committed state after a run: staged results are merged into the
\* committed ContainerSets only when no Pipe failed
Commit(committed, plan, failed) ==
  IF failed = 0
    THEN [s \in StepNames |-> MapUnion(committed[s], plan.touched[s])]
    ELSE committed

\* a lookup that falls back to the last Step for an unknown name
ResolveStepOrLast(name) ==
  IF name \in StepNames THEN StepIndex(name) ELSE Len(StepOrder)

\* the index of the Step of this name, 0 when the Runner has none
ResolveStep(name) == IF name \in StepNames THEN StepIndex(name) ELSE 0

RunError(err, exec) ==
  [ok |-> FALSE, err |-> err, exec |-> exec, steps |-> steps]

\* the outcome of executing a plan whose invocation number failed (0: none)
\* is the first to fail
RunPlan(plan, failed) ==
  IF ~plan.ok
    THEN RunError("InvalidRequestError", <<>>)
  ELSE IF failed # 0
    THEN [ok |-> FALSE, err |-> "PipeExecutionError",
          exec |-> SubSeq(plan.exec, 1, failed),
          steps |-> Commit(steps, plan, failed)]
  ELSE [ok |-> TRUE, err |-> "", exec |-> plan.exec,
        steps |-> Commit(steps, plan, failed)]

RunPlanned(plan, failPipe) ==
  RunPlan(plan, FirstFailure(plan.exec, failPipe, globals))

\* run(stepName, containerToTargetsMap); failPipe is the Pipe (if any) whose
\* external tool fails during this call
RunOutcome(stepName, request, failPipe) ==
  IF ResolveStep(stepName) = 0
    THEN RunError("ConfigurationError", <<>>)
  ELSE RunPlanned(getObjectives(steps, ResolveStep(stepName),
                                ExpandMap(request, globals)), failPipe)

Invocations(exec, p) == Cardinality({j \in 1..Len(exec) : exec[j].pipe = p})

\* the Runner as built: nothing lifted or decompiled, the default model
FreshRunner ==
  /\ globals = [n \in GlobalNames |-> DefaultModel]
  /\ \A s \in StepNames, c \in ContainerNames :
        steps[s][c] # {} => s = StepOrder[1] /\ c = "input"

NoCount == [p \in PipeNames |-> 0]

(***************************************************************************)
(* Invalidation (InvalidationEvent.cpp; Kind and Runner per section 4.4)   *)
(***************************************************************************)
\* Kind::getInvalidations: the Targets of this Kind whose addressed path the
\* diff alters.  The lifted root depends on the architecture, a function
\* Target on the model entry of its function, the input binary on nothing.
Kind_getInvalidations(kind, diff) ==
  IF kind = "Root" THEN (IF "Arch" \in diff THEN {RootT} ELSE {})
  ELSE IF kind = "Function" THEN {FunctionT(a) : a \in diff \cap Addresses}
  ELSE {}

\* every Kind answering with every Target as soon as the diff is not empty
ConsultKindsAll(diff, n) == IF diff = {} THEN {} ELSE ConcreteTargets

\* the Kinds consulted for one Container: the first n of the registry
ConsultKinds(diff, n) ==
  UNION {Kind_getInvalidations(KindsRegistry[i], diff) : i \in 1..n}

\* a walk that fills the entries of the first Step only
InvalidationEvent_getInvalidationsFirstStep(diff, alloc) ==
  [s \in StepNames |->
     [c \in (IF s = StepOrder[1] THEN alloc[s] ELSE {}) |->
        ConsultKinds(diff, Len(KindsRegistry))]]

\* a walk that makes an entry for every Container, null ones included
InvalidationEvent_getInvalidationsOfAll(diff, alloc) ==
  [s \in StepNames |->
     [c \in ContainerNames |-> ConsultKinds(diff, Len(KindsRegistry))]]

\* InvalidationEventBase::getInvalidations: an entry for every Step, and in
\* it for every non-null Container, filled by every registered Kind
InvalidationEvent_getInvalidations(diff, alloc) ==
  [s \in StepNames |->
     [c \in alloc[s] |-> ConsultKinds(diff, Len(KindsRegistry))]]

\* Runner::getInvalidations: may return an error; adds nothing to the map
Runner_getInvalidations(Map, fails) == [ok |-> ~fails, Map |-> Map]

\* Runner::invalidate: remove each listed Target from its Container
Runner_invalidate(Map, st) ==
  [s \in StepNames |->
     [c \in ContainerNames |->
        IF c \in DOMAIN Map[s] THEN st[s][c] \ Map[s][c] ELSE st[s][c]]]

\* an apply that returns success without invalidating
InvalidationEvent_applyNoRemoval(diff, st, alloc, propagationFails) ==
  [ok |-> ~propagationFails, steps |-> st]

\* an apply that invalidates before it looks at the error
InvalidationEvent_applyBeforeCheck(diff, st, alloc, propagationFails) ==
  [ok |-> ~propagationFails,
   steps |-> Runner_invalidate(InvalidationEvent_getInvalidations(diff, alloc),
                               st)]

\* InvalidationEventBase::apply; propagationFails is the outcome of
\* Runner.getInvalidations
InvalidationEvent_apply(diff, st, alloc, propagationFails) ==
  LET Map == InvalidationEvent_getInvalidations(diff, alloc)
      Error == ~Runner_getInvalidations(Map, propagationFails).ok
  IN IF Error
       THEN [ok |-> FALSE, steps |-> st]
       ELSE [ok |-> TRUE,
             steps |-> Runner_invalidate(
                         Runner_getInvalidations(Map, propagationFails).Map,
                         st)]

(***************************************************************************)
(* Analyses and Runner::runAnalysis (section 4.3)                          *)
(***************************************************************************)
\* the registered Analyses, in registration order
AnalysesRegistry == <<"DetectFunctions", "ImportNames", "DetectArch">>

AnalysisNames == {AnalysesRegistry[i] : i \in 1..Len(AnalysesRegistry)}

\* the lowest address the model does not hold yet (none when full)
NextAbsent(m) ==
  {i \in 1..MaxFunctions :
     /\ m.Functions[AddressNames[i]] = Absent
     /\ \A j \in 1..(i - 1) : m.Functions[AddressNames[j]] # Absent}

\* the new value of the model Global an Analysis produces: DetectFunctions
\* adds the next function it finds, ImportNames gives every function still
\* called "foo" its imported name, DetectArch switches the architecture
AnalysisEffect(name, m) ==
  IF name = "DetectFunctions"
    THEN [m EXCEPT !.Functions =
            [a \in Addresses |->
               IF \E i \in NextAbsent(m) : AddressNames[i] = a
                 THEN "foo" ELSE m.Functions[a]]]
  ELSE IF name = "ImportNames"
    THEN [m EXCEPT !.Functions =
            [a \in Addresses |->
               IF m.Functions[a] = "foo" THEN "bar" ELSE m.Functions[a]]]
  ELSE [m EXCEPT !.Arch = 1 - @]

NoFailure == [at |-> "none", index |-> 0]

\* the Runner after the event of the model's diff was applied
Applied(After, applied) ==
  [ok |-> applied.ok,
   err |-> IF applied.ok THEN "" ELSE "InvalidationError",
   globals |-> After, steps |-> applied.steps]

\* the diff of the snapshot against the new value, and its application
DiffAndApply(Before, After, st, alloc, propagationFails) ==
  Applied(After,
          InvalidationEvent_apply(GlobalsMap_diff(Before, After)["model"],
                                  st, alloc, propagationFails))

\* one runAnalysis on the state r = [ok, err, globals, steps]: snapshot,
\* execute, diff the snapshot against the new value, apply the event of
\* every Global's diff
runAnalysis(name, fail, index, r, alloc) ==
  IF ~r.ok THEN r
  ELSE IF fail.at = "analysis" /\ fail.index = index
    THEN [r EXCEPT !.ok = FALSE, !.err = "PipeExecutionError"]
  ELSE DiffAndApply(r.globals,
                    [r.globals EXCEPT !["model"] = AnalysisEffect(name, @)],
                    r.steps, alloc,
                    fail.at = "propagation" /\ fail.index = index)

RECURSIVE runAnalyses(_, _, _, _, _)
runAnalyses(names, i, fail, r, alloc) ==
  IF i > Len(names) THEN r
  ELSE runAnalyses(names, i + 1, fail,
                   runAnalysis(names[i], fail, i, r, alloc), alloc)

(***************************************************************************)
(* Initial state: a freshly built Runner                                   *)
(***************************************************************************)
\* last.exec: the Pipe invocations of the last call, in order; last.again:
\* the call repeats the successful request before it; last.count: the
\* execution counter of every Pipe, counted from the first of the identical
\* requests that end in the last call; last.first: the Runner was fresh at
\* that first request; last.diff, last.removed: the diff of the model
\* Global over the call and the <<Step, Container, Target>> it removed (for
\* a run: what the invalidation right before the call removed from the
\* requested Step and the request covers)
NoLast ==
  [op |-> "init", ok |-> TRUE, err |-> "", step |-> "", request |-> EmptyMap,
   exec |-> <<>>, first |-> FALSE, again |-> FALSE, count |-> NoCount,
   diff |-> {}, removed |-> {}]

\* a freshly built Runner on which no call is made
RunnerIdle ==
  /\ globals = [n \in GlobalNames |-> DefaultModel]
  /\ steps = [s \in StepNames |-> EmptyMap]
  /\ allocated = [s \in StepNames |-> {}]
  /\ last = NoLast

runnerVars == <<globals, steps, allocated, last>>

Init ==
  /\ globals = [n \in GlobalNames |-> DefaultModel]
  /\ steps = [s \in StepNames |-> EmptyMap]
  /\ allocated = [s \in StepNames |-> {}]
  /\ last = NoLast
  /\ store = Idle /\ driver = Idle /\ abi = Idle /\ yield = Idle

AnalysisOps == {"runAnalysis", "runAllAnalyses"}

Triples(st) ==
  {<<s, c, t>> : s \in StepNames, c \in ContainerNames, t \in ConcreteTargets}

\* what the containers of old hold and those of new do not
Removed(old, new) ==
  {x \in Triples(old) : x[3] \in old[x[1]][x[2]] \ new[x[1]][x[2]]}

\* the input container of the first Step is loaded from the input binary
LoadInput ==
  /\ steps' = [steps EXCEPT ![StepOrder[1]]["input"] = {BinaryT}]
  /\ allocated' = [allocated EXCEPT ![StepOrder[1]] = @ \cup {"input"}]
  /\ last' = [NoLast EXCEPT !.op = "load"]
  /\ UNCHANGED <<globals, others>>

\* the requests a caller issues: a Step and one Target (or wildcard) of one
\* container; the last ones name a Target no Pipe produces and a Step the
\* Runner does not have
Requests ==
  {<<"begin", Single("input", BinaryT)>>,
   <<"Lift", Single("model", RootT)>>,
   <<"Decompile", Single("model", RootT)>>,
   <<"Decompile", Single("functions", FunctionT(Wildcard))>>,
   <<"Decompile", Single("decompiled", FunctionT(Wildcard))>>,
   <<"Decompile", Single("decompiled", RootT)>>,
   <<"UnknownStep", Single("model", RootT)>>}
    \cup {<<"Decompile", Single("decompiled", FunctionT(a))>> : a \in Addresses}

PipesOf(exec) == {exec[j].pipe : j \in 1..Len(exec)}

\* the Pipes whose failure can be observed by this call
FailChoices(stepName, request) ==
  IF stepName \notin StepNames THEN {"none"}
  ELSE {"none"} \cup PipesOf(getObjectives(steps, StepIndex(stepName),
                                           ExpandMap(request, globals)).exec)

Allocate(old, new) ==
  [s \in StepNames |-> old[s] \cup {c \in ContainerNames : new[s][c] # {}}]

Run(stepName, request, failPipe) ==
  \E out \in {RunOutcome(stepName, request, failPipe)} :
     \E again \in {/\ last.op = "run" /\ last.ok
                   /\ last.step = stepName /\ last.request = request} :
        /\ steps' = out.steps
        /\ allocated' = Allocate(allocated, out.steps)
        /\ last' = [NoLast EXCEPT !.op = "run", !.ok = out.ok,
                      !.err = out.err, !.step = stepName,
                      !.request = request, !.exec = out.exec,
                      !.first = IF again THEN last.first ELSE FreshRunner,
                      !.again = again,
                      !.removed =
                         IF last.op \in AnalysisOps /\ last.ok
                           THEN {x \in last.removed :
                                   /\ x[1] = stepName
                                   /\ x[3] \in ExpandMap(request,
                                                         globals)[x[2]]}
                           ELSE {},
                      !.count = [p \in PipeNames |->
                                   (IF again THEN last.count[p] ELSE 0)
                                     + Invocations(out.exec, p)]]
        /\ UNCHANGED <<globals, others>>

RunAny ==
  \E req \in Requests :
     \E failPipe \in FailChoices(req[1], req[2]) :
        Run(req[1], req[2], failPipe)

Failures(n) ==
  {NoFailure} \cup [at : {"analysis", "propagation"}, index : 1..n]

\* the Runner after the Analyses names ran in order, stopping at an error
Analyze(op, names, fail) ==
  \E r \in {runAnalyses(names, 1, fail,
                        [ok |-> TRUE, err |-> "", globals |-> globals,
                         steps |-> steps], allocated)} :
     /\ globals' = r.globals
     /\ steps' = r.steps
     /\ last' = [NoLast EXCEPT !.op = op, !.ok = r.ok, !.err = r.err,
                   !.diff = GlobalsMap_diff(globals, r.globals)["model"],
                   !.removed = Removed(steps, r.steps)]
     /\ UNCHANGED <<allocated, others>>

RunAnalysis ==
  \E name \in AnalysisNames, fail \in Failures(1) :
     Analyze("runAnalysis", <<name>>, fail)

RunAllAnalyses ==
  \E fail \in Failures(Len(AnalysesRegistry)) :
     Analyze("runAllAnalyses", AnalysesRegistry, fail)

Next == LoadInput \/ RunAny \/ RunAnalysis \/ RunAllAnalyses

Spec == Init /\ [][Next]_vars

(***************************************************************************)
(* The artifact driver's result (tools/pipeline/artifact/Main.cpp)         *)
(***************************************************************************)
\* a result that hands out the whole container
main_ProducedAll(Container, Targets) == Container

\* Produced = Container.second->cloneFiltered(Map.at(ContainerName))
main_Produced(Container, Targets) == cloneFiltered(Container, Targets)

\* what the last run returned, per container of its request
Produced ==
  [c \in ContainerNames |->
     IF last.step \in StepNames
       THEN main_Produced(steps[last.step][c], last.request[c]) ELSE {}]

\* everything needed to obtain Target t of Container c: t itself and,
\* through every Pipe producing it, what its input needs
RECURSIVE Needs(_, _)
Needs(c, t) ==
  {<<c, t>>} \cup
    UNION {Needs(Pipes[p].from, PipeInput(Pipes[p], t)) :
             p \in {q \in PipeNames :
                      Pipes[q].to = c /\ Pipes[q].toKind = t.kind}}

(***************************************************************************)
(* Properties of run                                                       *)
(***************************************************************************)
\* C1: a successful run issued a second time, with nothing in between,
\* invokes no Pipe; on a fresh Runner the request for the lifted root has
\* invoked Lift exactly once after both calls, and no other Pipe
C1_SecondRunInvokesNoPipe ==
  (last.op = "run" /\ last.again) =>
     /\ last.ok
     /\ last.exec = <<>>
     /\ (last.first /\ last.step = "Lift") =>
           last.count = [NoCount EXCEPT !["Lift"] = 1]

C1_Witness ==
  /\ last.op = "run" /\ last.again /\ last.ok /\ last.first
  /\ last.step = "Lift" /\ last.request = Single("model", RootT)
  /\ last.count["Lift"] = 1

\* C2: when a Pipe fails during run, the call returns an error and the
\* committed ContainerSet of every Step is what it was before the call,
\* also for the Steps whose Pipes had already run
C2_FailedRunCommitsNothing ==
  [][(last'.op = "run" /\ last'.err = "PipeExecutionError") =>
        (~last'.ok /\ steps' = steps /\ allocated' = allocated)]_vars

C2_Witness ==
  /\ last.op = "run" /\ ~last.ok /\ last.err = "PipeExecutionError"
  /\ Len(last.exec) >= 2
  /\ last.exec[1].step # last.exec[Len(last.exec)].step

\* C7: run with a step name the Runner does not have returns a
\* ConfigurationError and changes no Container of any Step
C7_UnknownStepIsConfigurationError ==
  [][(last'.op = "run" /\ last'.step \notin StepNames) =>
        /\ ~last'.ok
        /\ last'.err = "ConfigurationError"
        /\ last'.exec = <<>>
        /\ steps' = steps]_vars

C7_Witness ==
  /\ last.op = "run" /\ last.step \notin StepNames
  /\ last.err = "ConfigurationError"
  /\ steps["Lift"]["model"] # {}

\* C9: the Pipes a run executes are asked only for Targets needed for the
\* requested Targets that the requested Step does not hold yet, and never
\* for a Target their Step already holds
C9_OnlyMissingTargetsAreComputed ==
  [][(last'.op = "run" /\ last'.step \in StepNames) =>
        \A j \in 1..Len(last'.exec) :
           \A t \in last'.exec[j].targets :
              /\ t \notin steps[last'.exec[j].step][Pipes[last'.exec[j].pipe].to]
              /\ \E c \in ContainerNames :
                    \E r \in ExpandMap(last'.request, globals)[c]
                               \ steps[last'.step][c] :
                       <<Pipes[last'.exec[j].pipe].to, t>> \in Needs(c, r)]_vars

C9_Witness ==
  /\ last.op = "run" /\ last.ok
  /\ last.request = Single("decompiled", FunctionT(Wildcard))
  /\ Cardinality(steps["Decompile"]["decompiled"]) = 2
  /\ \A j \in 1..Len(last.exec) :
        last.exec[j].targets = {FunctionT(AddressNames[2])}
  /\ Len(last.exec) = 2

\* C10: a successful run returns, per requested container, exactly the
\* expanded Targets of the request; the committed state holds them and
\* everything it held before the call
C10_RunReturnsExactlyTheRequest ==
  [][(last'.op = "run" /\ last'.ok) =>
        /\ \A c \in ContainerNames :
              /\ Produced'[c] = ExpandMap(last'.request, globals')[c]
              /\ Produced'[c] \subseteq steps'[last'.step][c]
        /\ \A s \in StepNames, c \in ContainerNames :
              steps[s][c] \subseteq steps'[s][c]]_vars

C10_Witness ==
  /\ last.op = "run" /\ last.ok
  /\ Produced["decompiled"] = {FunctionT(AddressNames[1])}
  /\ Cardinality(steps["Decompile"]["decompiled"]) = 2

(***************************************************************************)
(* Properties of invalidation and runAnalysis                              *)
(***************************************************************************)
\* C3: a Target materialized before an Analysis ran, whose Kind the diff of
\* that Analysis invalidates, is in its Container in no Step once the
\* invalidation event was applied successfully
C3_InvalidatedTargetsAreRemoved ==
  [][(last'.op \in AnalysisOps /\ last'.ok) =>
        \A s \in StepNames, c \in ContainerNames :
           \A T \in steps[s][c] :
              T \in Kind_getInvalidations(T.kind, last'.diff) =>
                 \A s2 \in StepNames : T \notin steps'[s2][c]]_vars

C3_Witness ==
  /\ last.op = "runAnalysis" /\ last.ok
  /\ globals["model"].Functions[AddressNames[1]] = "bar"
  /\ <<"Decompile", "decompiled", FunctionT(AddressNames[1])>> \in last.removed
  /\ FunctionT(AddressNames[1])
       \in Kind_getInvalidations("Function", last.diff)

C5_NoStaleTargetAfterAnalysis ==
  (last.op \in AnalysisOps /\ last.ok) =>
     \A s \in StepNames, c \in ContainerNames :
        steps[s][c] \cap ConsultKinds(last.diff, Len(KindsRegistry)) = {}

C5_Witness ==
  /\ last.op = "runAllAnalyses" /\ last.ok
  /\ "Arch" \in last.diff
  /\ <<"Lift", "model", RootT>> \in last.removed

\* C6: a runAnalysis or runAllAnalyses that fails, in the Analysis or in the
\* application of the invalidation event, leaves every Global and every
\* Container as it was before the call
C6_FailedAnalysisChangesNothing ==
  [][(last'.op \in AnalysisOps /\ ~last'.ok) =>
        (globals' = globals /\ steps' = steps)]_vars

\* C8: the successful run that follows an invalidation and covers a Target
\* the invalidation removed from a Container of the requested Step executes
\* a Pipe producing that Target, and the Container holds the Target again
C8_RemovedTargetsAreRecomputed ==
  (last.op = "run" /\ last.ok) =>
     \A x \in last.removed :
        (/\ x[1] = last.step
         /\ x[3] \in ExpandMap(last.request, globals)[x[2]]) =>
           /\ x[3] \in steps[x[1]][x[2]]
           /\ \E j \in 1..Len(last.exec) :
                 /\ Pipes[last.exec[j].pipe].to = x[2]
                 /\ x[3] \in last.exec[j].targets

C8_Witness ==
  /\ last.op = "run" /\ last.ok /\ last.step = "Decompile"
  /\ last.request = Single("decompiled", FunctionT(Wildcard))
  /\ <<"Decompile", "decompiled", FunctionT(AddressNames[2])>> \in last.removed
  /\ \E j \in 1..Len(last.exec) :
        /\ last.exec[j].pipe = "Decompile"
        /\ last.exec[j].targets = {FunctionT(AddressNames[2])}
  /\ Cardinality(steps["Decompile"]["decompiled"]) = 2

(***************************************************************************)
(* Globals as objects: types, serialization, diffs (Global.h)              *)
(***************************************************************************)
\* the concrete type of every Global a GlobalsMap is built with
GlobalTypes == [model |-> "Binary", settings |-> "Settings"]

\* the names of a GlobalsMap in its iteration order
GlobalOrder == <<"model", "settings">>

ArchNames == <<"x86", "arm">>

LevelNames == <<"low", "high">>

\* Object(): the default value of a tuple tree of this type
DefaultValue(type) ==
  IF type = "Binary" THEN DefaultModel ELSE [Level |-> 0]

\* the text of the functions from address number i on, in address order
RECURSIVE serializeFunctions(_, _)
serializeFunctions(v, i) ==
  IF i > MaxFunctions THEN <<>>
  ELSE (IF v.Functions[AddressNames[i]] = Absent THEN <<>>
        ELSE <<<<AddressNames[i], v.Functions[AddressNames[i]]>>>>)
         \o serializeFunctions(v, i + 1)

\* Value.serialize(OS): the document of a tuple tree, a list of key and
\* text; a function the model does not hold has no entry
TupleTree_serialize(type, v) ==
  IF type = "Binary"
    THEN <<<<"Arch", ArchNames[v.Arch + 1]>>>> \o serializeFunctions(v, 1)
    ELSE <<<<"Level", LevelNames[v.Level + 1]>>>>

\* the number a text stands for in a list of names, 0 when it is none
IndexOf(names, text) ==
  IF \E i \in 1..Len(names) : names[i] = text
    THEN CHOOSE i \in 1..Len(names) : names[i] = text
    ELSE 0

\* one entry of a document read into the value r.value of this type
ReadEntry(type, r, key, text) ==
  IF ~r.ok \/ key \in r.seen THEN [r EXCEPT !.ok = FALSE]
  ELSE IF type = "Binary" /\ key = "Arch" /\ IndexOf(ArchNames, text) # 0
    THEN [r EXCEPT !.seen = @ \cup {key},
                   !.value.Arch = IndexOf(ArchNames, text) - 1]
  ELSE IF type = "Binary" /\ key \in Addresses /\ text \in {"foo", "bar"}
    THEN [r EXCEPT !.seen = @ \cup {key}, !.value.Functions[key] = text]
  ELSE IF type = "Settings" /\ key = "Level"
            /\ IndexOf(LevelNames, text) # 0
    THEN [r EXCEPT !.seen = @ \cup {key},
                   !.value.Level = IndexOf(LevelNames, text) - 1]
  ELSE [r EXCEPT !.ok = FALSE]

RECURSIVE ReadEntries(_, _, _, _)
ReadEntries(type, r, buffer, i) ==
  IF i > Len(buffer) THEN r
  ELSE ReadEntries(type, ReadEntry(type, r, buffer[i][1], buffer[i][2]),
                   buffer, i + 1)

\* TupleTree<Object>::deserialize(Buffer): the value the document stands
\* for, or an error for a document that is not one of this type
TupleTree_deserialize(type, buffer) ==
  ReadEntries(type, [ok |-> TRUE, seen |-> {}, value |-> DefaultValue(type)],
              buffer, 1)

\* a deserialize that reports success and keeps the old value
TupleTreeGlobal_deserializeKeep(g, buffer) == [ok |-> TRUE, global |-> g]

\* TupleTreeGlobal::deserialize: the value is replaced only by a document
\* that was read without error
\* a deserialize that writes into the value while it parses
TupleTreeGlobal_deserializePartial(g, buffer) ==
  [ok |-> TupleTree_deserialize(g.type, buffer).ok,
   global |-> [g EXCEPT !.value = TupleTree_deserialize(g.type, buffer).value]]

TupleTreeGlobal_deserialize(g, buffer) ==
  IF TupleTree_deserialize(g.type, buffer).ok
    THEN [ok |-> TRUE,
          global |-> [g EXCEPT !.value =
                        TupleTree_deserialize(g.type, buffer).value]]
    ELSE [ok |-> FALSE, global |-> g]

\* the paths at which two values of one type differ
ValueDiff(type, old, new) ==
  IF type = "Binary" THEN TupleTreeGlobal_diff(old, new)
  ELSE IF old.Level # new.Level THEN {"Level"} ELSE {}

\* the text of a value at one path of its type ("-": not in the tree)
TextAt(type, v, key) ==
  IF key = "Arch" THEN ArchNames[v.Arch + 1]
  ELSE IF key = "Level" THEN LevelNames[v.Level + 1]
  ELSE IF v.Functions[key] = Absent THEN "-" ELSE v.Functions[key]

\* the paths of a type in document order
PathOrder(type) ==
  IF type = "Binary"
    THEN <<"Arch">> \o [i \in 1..MaxFunctions |-> AddressNames[i]]
    ELSE <<"Level">>

\* the document of a diff: the changed paths with their new text
RECURSIVE serializeDiff(_, _, _, _)
serializeDiff(type, old, new, i) ==
  IF i > Len(PathOrder(type)) THEN <<>>
  ELSE (IF PathOrder(type)[i] \in ValueDiff(type, old, new)
          THEN <<<<PathOrder(type)[i], TextAt(type, new, PathOrder(type)[i])>>>>
          ELSE <<>>)
         \o serializeDiff(type, old, new, i + 1)

\* one change of a diff applied to the value r.value
ApplyChange(type, r, key, text) ==
  IF r.ok /\ type = "Binary" /\ key \in Addresses /\ text = "-"
    THEN [r EXCEPT !.value.Functions[key] = Absent]
    ELSE [ReadEntry(type, [r EXCEPT !.seen = {}], key, text)
            EXCEPT !.seen = {}]

RECURSIVE ApplyChanges(_, _, _, _)
ApplyChanges(type, r, buffer, i) ==
  IF i > Len(buffer) THEN r
  ELSE ApplyChanges(type, ApplyChange(type, r, buffer[i][1], buffer[i][2]),
                    buffer, i + 1)

\* ::deserialize<TupleTreeDiff<Object>> followed by apply: the document is
\* read as a diff of this type before any change is made
TupleTreeDiff_apply(type, v, buffer) ==
  ApplyChanges(type, [ok |-> TRUE, seen |-> {}, value |-> v], buffer, 1)

\* an applyDiff that keeps the changes made before the error
TupleTreeGlobal_applyDiffPartial(g, buffer) ==
  [ok |-> TupleTreeDiff_apply(g.type, g.value, buffer).ok,
   global |-> [g EXCEPT !.value =
                 TupleTreeDiff_apply(g.type, g.value, buffer).value]]

\* TupleTreeGlobal::applyDiff: an error of the deserialization is returned
\* before the value is touched
TupleTreeGlobal_applyDiff(g, buffer) ==
  IF TupleTreeDiff_apply(g.type, g.value, buffer).ok
    THEN [ok |-> TRUE,
          global |-> [g EXCEPT !.value =
                        TupleTreeDiff_apply(g.type, g.value, buffer).value]]
    ELSE [ok |-> FALSE, global |-> g]

(***************************************************************************)
(* GlobalsMap: two maps A and B over a heap of Global objects (Global.h)   *)
(***************************************************************************)
\* number of Global objects the heap can hold
MaxObjects == 4

ObjectIds == 1..MaxObjects

Free == [type |-> "free", value |-> [Level |-> 0]]

Sides == {"A", "B"}

AllGlobalNames == {GlobalOrder[i] : i \in 1..Len(GlobalOrder)}

\* no entry under this name
NoObject == 0

EmptyGlobalsMap == [n \in AllGlobalNames |-> NoObject]

\* the objects one map owns
Owned(map) == {map[n] : n \in AllGlobalNames} \ {NoObject}

\* the id number k (counted from 1) among the free ones of a heap
FreeId(heap, k) ==
  CHOOSE i \in ObjectIds :
     /\ heap[i] = Free
     /\ Cardinality({j \in 1..i : heap[j] = Free}) = k

\* the position of a name among the entries of a map
EntryNumber(map, n) ==
  Cardinality({i \in 1..Len(GlobalOrder) :
                 /\ map[GlobalOrder[i]] # NoObject
                 /\ i <= IndexOf(GlobalOrder, n)})

\* a copy that shares the objects of the source
GlobalsMap_copyShared(heap, dst, src) ==
  [heap |-> heap, map |-> src]

\* GlobalsMap(const GlobalsMap &) and operator=: the entries of the
\* destination are destroyed and every entry of the source is cloned into a
\* new object
GlobalsMap_copy(heap, dst, src) ==
  LET released == [i \in ObjectIds |->
                     IF i \in Owned(dst) THEN Free ELSE heap[i]]
  IN [heap |-> [i \in ObjectIds |->
                  IF \E n \in AllGlobalNames :
                        /\ src[n] # NoObject
                        /\ i = FreeId(released, EntryNumber(src, n))
                    THEN heap[src[CHOOSE n \in AllGlobalNames :
                                    /\ src[n] # NoObject
                                    /\ i = FreeId(released,
                                                  EntryNumber(src, n))]]
                    ELSE released[i]],
      map |-> [n \in AllGlobalNames |->
                 IF src[n] = NoObject THEN NoObject
                 ELSE FreeId(released, EntryNumber(src, n))]]

\* GlobalsMap::get<T>(Name)
GlobalsMap_get(heap, map, name, T) ==
  IF map[name] = NoObject
    THEN [ok |-> FALSE, err |-> "could not find", object |-> NoObject]
  ELSE IF heap[map[name]].type # T
    THEN [ok |-> FALSE, err |-> "wrong type", object |-> NoObject]
  ELSE [ok |-> TRUE, err |-> "", object |-> map[name]]

\* a diff that has entries only for the Globals that differ
SideDiffOfChanged(st, a, b) ==
  [n \in {m \in AllGlobalNames :
            /\ st.maps[a][m] # NoObject
            /\ ValueDiff(st.heap[st.maps[a][m]].type,
                         st.heap[st.maps[a][m]].value,
                         st.heap[st.maps[b][m]].value) # {}} |->
     ValueDiff(st.heap[st.maps[a][n]].type,
               st.heap[st.maps[a][n]].value,
               st.heap[st.maps[b][n]].value)]

\* GlobalsMap::diff(Other) of the map a against the map b: for every entry
\* of the receiver, the diff of its Global against the Global Other holds
\* under the same name
SideDiff(st, a, b) ==
  [n \in {m \in AllGlobalNames : st.maps[a][m] # NoObject} |->
     ValueDiff(st.heap[st.maps[a][n]].type,
               st.heap[st.maps[a][n]].value,
               st.heap[st.maps[b][n]].value)]

(***************************************************************************)
(* Specification of the GlobalsMap operations                              *)
(***************************************************************************)
\* store.last: the last operation, the map and name it worked on, where
\* the document it was given came from (source) and what it returned
NoDiffMap == [n \in {} |-> {}]

NoOp ==
  [op |-> "init", ok |-> TRUE, side |-> "", name |-> "", source |-> "",
   diff |-> NoDiffMap]

InitCopy ==
  /\ RunnerIdle /\ driver = Idle /\ abi = Idle /\ yield = Idle
  /\ store =
       [heap |-> [i \in ObjectIds |->
                    IF i <= Len(GlobalOrder)
                      THEN [type |-> GlobalTypes[GlobalOrder[i]],
                            value |-> DefaultValue(GlobalTypes[GlobalOrder[i]])]
                      ELSE Free],
        maps |-> [A |-> [n \in AllGlobalNames |-> IndexOf(GlobalOrder, n)],
                  B |-> EmptyGlobalsMap],
        last |-> NoOp]

\* the names a map holds
Named(map) == {n \in AllGlobalNames : map[n] # NoObject}

Live(st) == Owned(st.maps["A"]) \cup Owned(st.maps["B"])

\* the operation replaced the object under (side, name) of st by g
WithGlobal(st, op, side, name, g, ok, source) ==
  [st EXCEPT !.heap[st.maps[side][name]] = g,
             !.last = [op |-> op, ok |-> ok, side |-> side, name |-> name,
                       source |-> source, diff |-> NoDiffMap]]

\* an Analysis writes a new value into the model Global
Mutate(side, name) ==
  /\ store.maps[side][name] # NoObject
  /\ \E g \in {store.heap[store.maps[side][name]]} :
        /\ g.type = "Binary"
        /\ \E a \in AnalysisNames :
              store' = WithGlobal(store, "mutate", side, name,
                                  [g EXCEPT !.value = AnalysisEffect(a, @)],
                                  TRUE, "")
  /\ UNCHANGED <<runnerVars, driver, abi, yield>>

\* Global::clear
Clear(side, name) ==
  /\ store.maps[side][name] # NoObject
  /\ \E g \in {store.heap[store.maps[side][name]]} :
        store' = WithGlobal(store, "clear", side, name,
                            [g EXCEPT !.value = DefaultValue(g.type)],
                            TRUE, "")
  /\ UNCHANGED <<runnerVars, driver, abi, yield>>

Junk == <<<<"Junk", "x">>>>

OtherSide(side) == IF side = "A" THEN "B" ELSE "A"

\* where a document comes from: the Global of the same name in the other
\* map ("peer"), a Global of another type in the same map ("other"), or a
\* buffer that is no document ("junk")
Sources == {"peer", "other", "junk"}

\* the object a source stands for
SourceObject(st, side, name, source) ==
  IF source = "peer" THEN st.maps[OtherSide(side)][name]
  ELSE IF source = "other"
    THEN st.maps[side][CHOOSE n \in AllGlobalNames : n # name]
  ELSE NoObject

\* Global::deserialize of the document of the source object
Deserialize(side, name, source) ==
  /\ store.maps[side][name] # NoObject
  /\ source # "junk" => SourceObject(store, side, name, source) # NoObject
  /\ \E r \in {TupleTreeGlobal_deserialize(
                 store.heap[store.maps[side][name]],
                 IF source = "junk" THEN Junk
                 ELSE TupleTree_serialize(
                        store.heap[SourceObject(store, side, name,
                                                source)].type,
                        store.heap[SourceObject(store, side, name,
                                                source)].value))} :
        store' = WithGlobal(store, "deserialize", side, name, r.global,
                            r.ok, source)
  /\ UNCHANGED <<runnerVars, driver, abi, yield>>

\* the diff document that leads to the value of the object o: from the
\* value of g when o has the type of g, from the default value otherwise
DiffTo(g, o) ==
  IF o.type = g.type
    THEN serializeDiff(g.type, g.value, o.value, 1)
    ELSE serializeDiff(o.type, DefaultValue(o.type), o.value, 1)

\* Global::applyDiff of the diff that leads to the value of the source
\* object; the source "junk" is the diff to the peer with a corrupt tail
ApplyDiff(side, name, source) ==
  /\ store.maps[side][name] # NoObject
  /\ SourceObject(store, side, name,
                  IF source = "junk" THEN "peer" ELSE source) # NoObject
  /\ \E r \in {TupleTreeGlobal_applyDiff(
                 store.heap[store.maps[side][name]],
                 DiffTo(store.heap[store.maps[side][name]],
                        store.heap[SourceObject(
                          store, side, name,
                          IF source = "junk" THEN "peer" ELSE source)])
                   \o (IF source = "junk" THEN Junk ELSE <<>>))} :
        store' = WithGlobal(store, "applyDiff", side, name, r.global,
                            r.ok, source)
  /\ UNCHANGED <<runnerVars, driver, abi, yield>>

\* B = A, A = B, and the self-assignment that returns at once
CopyAssign(dst, src) ==
  /\ \E r \in {IF dst = src
                 THEN [heap |-> store.heap, map |-> store.maps[dst]]
                 ELSE GlobalsMap_copy(store.heap, store.maps[dst],
                                      store.maps[src])} :
        store' = [heap |-> r.heap,
                  maps |-> [store.maps EXCEPT ![dst] = r.map],
                  last |-> [NoOp EXCEPT !.op = "copy", !.side = dst,
                                        !.name = src]]
  /\ UNCHANGED <<runnerVars, driver, abi, yield>>

\* GlobalsMap::get<T>(Name)
Get(side, name, T) ==
  /\ \E r \in {GlobalsMap_get(store.heap, store.maps[side], name, T)} :
        store' = [store EXCEPT !.last =
                    [NoOp EXCEPT !.op = "get", !.ok = r.ok, !.side = side,
                                 !.name = name, !.source = T]]
  /\ UNCHANGED <<runnerVars, driver, abi, yield>>

\* GlobalsMap::diff of one map against the other; the callers diff maps
\* that hold the same names (Other.Map.find is dereferenced unchecked)
Diff(side) ==
  /\ Named(store.maps[side]) # {}
  /\ Named(store.maps[side]) \subseteq Named(store.maps[OtherSide(side)])
  /\ store' = [store EXCEPT !.last =
                 [NoOp EXCEPT !.op = "diff", !.side = side,
                              !.name = OtherSide(side),
                              !.diff = SideDiff(store, side,
                                                OtherSide(side))]]
  /\ UNCHANGED <<runnerVars, driver, abi, yield>>

DiffAny == \E side \in Sides : Diff(side)

MutateAny == \E side \in Sides, name \in AllGlobalNames : Mutate(side, name)

ClearAny == \E side \in Sides, name \in AllGlobalNames : Clear(side, name)

DeserializeAny ==
  \E side \in Sides, name \in AllGlobalNames, source \in Sources :
     Deserialize(side, name, source)

ApplyDiffAny ==
  \E side \in Sides, name \in AllGlobalNames, source \in Sources :
     ApplyDiff(side, name, source)

CopyAny == \E dst \in Sides, src \in Sides : CopyAssign(dst, src)

GetAny ==
  \E side \in Sides, name \in AllGlobalNames :
     \E T \in {"Binary", "Settings"} : Get(side, name, T)

NextCopy ==
  MutateAny \/ ClearAny \/ DeserializeAny \/ ApplyDiffAny \/ CopyAny \/ GetAny
    \/ DiffAny

SpecCopy == InitCopy /\ [][NextCopy]_vars

(***************************************************************************)
(* Properties of Globals and of the GlobalsMap                             *)
(***************************************************************************)
\* the Global the last operation worked on, and its peer in the other map
LastGlobal == store.heap[store.maps[store.last.side][store.last.name]]

LastPeer ==
  store.heap[store.maps[OtherSide(store.last.side)][store.last.name]]

\* C11: a Global deserialized from the serialization of a Global g of its
\* type has an empty diff against g; and the document of every Global
\* reads back, without error, as a value with an empty diff against it
C11_SerializeDeserializeRoundTrip ==
  /\ (store.last.op = "deserialize" /\ store.last.source = "peer") =>
        /\ store.last.ok
        /\ ValueDiff(LastGlobal.type, LastGlobal.value, LastPeer.value) = {}
  /\ \A i \in Live(store) :
        /\ TupleTree_deserialize(
             store.heap[i].type,
             TupleTree_serialize(store.heap[i].type, store.heap[i].value)).ok
        /\ ValueDiff(store.heap[i].type,
                     TupleTree_deserialize(
                       store.heap[i].type,
                       TupleTree_serialize(store.heap[i].type,
                                           store.heap[i].value)).value,
                     store.heap[i].value) = {}

C11_Witness ==
  /\ store.last.op = "deserialize" /\ store.last.source = "peer"
  /\ store.last.ok /\ store.last.name = "model"
  /\ LastGlobal.value.Arch = 1
  /\ LastGlobal.value.Functions[AddressNames[1]] = "bar"
  /\ LastGlobal.value.Functions[AddressNames[2]] = "foo"

\* C12: after a GlobalsMap is copied from another the two hold the same
\* names with equal values, and the source is as it was; a mutation, clear,
\* deserialize or applyDiff on a Global of one map changes no Global of the
\* other map
C12_GlobalsMapCopiesAreDeep ==
  [][/\ (store'.last.op = "copy" /\ store'.last.side # store'.last.name) =>
           /\ \A n \in AllGlobalNames :
                 /\ (store'.maps[store'.last.side][n] = NoObject)
                      = (store.maps[store'.last.name][n] = NoObject)
                 /\ store.maps[store'.last.name][n] # NoObject =>
                       /\ store'.heap[store'.maps[store'.last.side][n]]
                            = store.heap[store.maps[store'.last.name][n]]
                       /\ store'.heap[store'.maps[store'.last.name][n]]
                            = store.heap[store.maps[store'.last.name][n]]
           /\ \A n \in DOMAIN SideDiff(store', store'.last.side,
                                       store'.last.name) :
                 SideDiff(store', store'.last.side, store'.last.name)[n] = {}
     /\ (store'.last.op \in {"mutate", "clear", "deserialize", "applyDiff"})
          => \A n \in AllGlobalNames :
                /\ store'.maps[OtherSide(store'.last.side)][n]
                     = store.maps[OtherSide(store'.last.side)][n]
                /\ store.maps[OtherSide(store'.last.side)][n] # NoObject =>
                      store'.heap[store.maps[OtherSide(store'.last.side)][n]]
                        = store.heap[store.maps[OtherSide(store'.last.side)][n]]
    ]_vars

C12_Witness ==
  /\ store.last.op = "mutate" /\ store.last.side = "B"
  /\ store.maps["A"]["model"] # NoObject
  /\ LastGlobal.value.Functions[AddressNames[1]] = "foo"
  /\ LastPeer.value.Functions[AddressNames[1]] = "bar"
  /\ LastPeer.value.Arch # LastGlobal.value.Arch

\* C13: GlobalsMap::get<T> returns an error exactly when the name is absent
\* or names a Global that is not a T, and changes nothing; an applyDiff
\* that fails, as that of a diff of another type does, leaves the value of
\* the Global as it was
C13_TypeMismatchIsAnErrorWithoutEffect ==
  [][/\ store'.last.op = "get" =>
           /\ store'.last.ok =
                (/\ store.maps[store'.last.side][store'.last.name] # NoObject
                 /\ store.heap[store.maps[store'.last.side]
                                         [store'.last.name]].type
                      = store'.last.source)
           /\ store'.heap = store.heap /\ store'.maps = store.maps
     /\ (store'.last.op = "applyDiff" /\ ~store'.last.ok) =>
           (store'.heap = store.heap /\ store'.maps = store.maps)
     /\ (/\ store'.last.op = "applyDiff" /\ store'.last.source = "other"
         /\ DiffTo(store.heap[store.maps[store'.last.side][store'.last.name]],
                   store.heap[SourceObject(store, store'.last.side,
                                           store'.last.name, "other")])
              # <<>>) => ~store'.last.ok
    ]_vars

C13_Witness ==
  /\ store.last.op = "applyDiff" /\ ~store.last.ok
  /\ store.last.source = "other" /\ store.last.name = "settings"
  /\ store.heap[store.maps[store.last.side]["model"]].value.Arch = 1

\* ---------------------------------------------------------------------
\* Persisting a GlobalsMap: one map, one directory
\* ---------------------------------------------------------------------

\* the sources hold two definitions of GlobalsMap::storeToDisk and
\* GlobalsMap::loadFromDisk: one writes root/N, one root/context/N; which
\* of them a build links is not decided by the sources
Builds == {"flat", "context"}

Root == <<"root">>

GlobalPath(build, root, name) ==
  IF build = "context" THEN root \o <<"context", name>>
                       ELSE root \o <<name>>

Paths == {GlobalPath(b, Root, n) : b \in Builds, n \in AllGlobalNames}

NoFile == <<<<"", "no file">>>>

\* Global::storeToDisk: the file is opened, and on success the Global is
\* serialized into it
Global_storeToDisk(g, files, path, EC) ==
  IF EC
    THEN [ok |-> FALSE, files |-> files]
    ELSE [ok |-> TRUE,
          files |-> [files EXCEPT ![path] = TupleTree_serialize(g.type,
                                                                g.value)]]

\* a load for which a file that does not exist is an error
Global_loadFromDiskStrict(g, files, path, EC) ==
  IF files[path] = NoFile \/ EC
    THEN [ok |-> FALSE, global |-> g]
    ELSE TupleTreeGlobal_deserialize(g, files[path])

\* Global::loadFromDisk: a file that does not exist clears the Global
Global_loadFromDisk(g, files, path, EC) ==
  IF files[path] = NoFile
    THEN [ok |-> TRUE, global |-> [g EXCEPT !.value = DefaultValue(g.type)]]
  ELSE IF EC
    THEN [ok |-> FALSE, global |-> g]
  ELSE TupleTreeGlobal_deserialize(g, files[path])

\* the failures of the file system: none, or at the i-th Global, when its
\* directory is created or when its file is opened
DiskFailures(build) ==
  {[at |-> 0, what |-> "none"]}
    \cup {[at |-> i, what |-> "file"] : i \in 1..Len(GlobalOrder)}
    \cup (IF build = "context"
            THEN {[at |-> i, what |-> "dir"] : i \in 1..Len(GlobalOrder)}
            ELSE {})

\* GlobalsMap::storeToDisk from the i-th Global on: the first error ends it
RECURSIVE GlobalsMap_storeFrom(_, _, _, _)
GlobalsMap_storeFrom(st, root, fail, i) ==
  IF i > Len(GlobalOrder)
    THEN [ok |-> TRUE, at |-> 0, st |-> st]
  ELSE IF fail.at = i /\ fail.what = "dir"
    THEN [ok |-> FALSE, at |-> i, st |-> st]
  ELSE IF ~Global_storeToDisk(st.map[GlobalOrder[i]], st.files,
                              GlobalPath(st.build, root, GlobalOrder[i]),
                              fail.at = i).ok
    THEN [ok |-> FALSE, at |-> i,
          st |-> [st EXCEPT !.contextDir = @ \/ st.build = "context",
                            !.files = Global_storeToDisk(
                                        st.map[GlobalOrder[i]], st.files,
                                        GlobalPath(st.build, root,
                                                   GlobalOrder[i]),
                                        fail.at = i).files]]
  ELSE GlobalsMap_storeFrom(
         [st EXCEPT !.contextDir = @ \/ st.build = "context",
                    !.files = Global_storeToDisk(
                                st.map[GlobalOrder[i]], st.files,
                                GlobalPath(st.build, root, GlobalOrder[i]),
                                FALSE).files],
         root, fail, i + 1)

\* a store that goes on with the Globals after the one that failed
GlobalsMap_storeToDiskRest(st, root, fail) ==
  IF GlobalsMap_storeFrom(st, root, fail, 1).ok
    THEN GlobalsMap_storeFrom(st, root, fail, 1)
    ELSE [GlobalsMap_storeFrom(st, root, fail, 1) EXCEPT
            !.st = GlobalsMap_storeFrom(@, root, [at |-> 0, what |-> "none"],
                     GlobalsMap_storeFrom(st, root, fail, 1).at + 1).st]

GlobalsMap_storeToDisk(st, root, fail) == GlobalsMap_storeFrom(st, root, fail, 1)

\* GlobalsMap::loadFromDisk from the i-th Global on
RECURSIVE GlobalsMap_loadFrom(_, _, _, _)
GlobalsMap_loadFrom(st, root, fail, i) ==
  IF i > Len(GlobalOrder)
    THEN [ok |-> TRUE, at |-> 0, st |-> st]
  ELSE IF ~Global_loadFromDisk(st.map[GlobalOrder[i]], st.files,
                               GlobalPath(st.build, root, GlobalOrder[i]),
                               fail.at = i).ok
    THEN [ok |-> FALSE, at |-> i,
          st |-> [st EXCEPT !.map[GlobalOrder[i]] =
                    Global_loadFromDisk(@, st.files,
                                        GlobalPath(st.build, root,
                                                   GlobalOrder[i]),
                                        fail.at = i).global]]
  ELSE GlobalsMap_loadFrom(
         [st EXCEPT !.map[GlobalOrder[i]] =
            Global_loadFromDisk(@, st.files,
                                GlobalPath(st.build, root, GlobalOrder[i]),
                                FALSE).global],
         root, fail, i + 1)

GlobalsMap_loadFromDisk(st, root, fail) == GlobalsMap_loadFrom(st, root, fail, 1)

NoDiskOp == [op |-> "init", ok |-> TRUE, at |-> 0]

InitDisk ==
  /\ RunnerIdle /\ driver = Idle /\ abi = Idle /\ yield = Idle
  /\ \E b \in Builds :
       store = [build |-> b,
                map |-> [n \in AllGlobalNames |->
                           [type |-> GlobalTypes[n],
                            value |-> DefaultValue(GlobalTypes[n])]],
                files |-> [p \in Paths |-> NoFile],
                contextDir |-> FALSE,
                last |-> NoDiskOp]

\* an Analysis writes a new value into the model Global
MutateLoaded ==
  /\ \E a \in AnalysisNames :
       store' = [store EXCEPT !.map["model"].value = AnalysisEffect(a, @),
                              !.last = [op |-> "mutate", ok |-> TRUE,
                                        at |-> 0]]
  /\ UNCHANGED <<runnerVars, driver, abi, yield>>

StoreToDisk ==
  /\ \E fail \in DiskFailures(store.build) :
       store' = [GlobalsMap_storeToDisk(store, Root, fail).st EXCEPT
                   !.last = [op |-> "store",
                             ok |-> GlobalsMap_storeToDisk(store, Root,
                                                           fail).ok,
                             at |-> GlobalsMap_storeToDisk(store, Root,
                                                           fail).at]]
  /\ UNCHANGED <<runnerVars, driver, abi, yield>>

LoadFromDisk ==
  /\ \E fail \in {f \in DiskFailures(store.build) : f.what # "dir"} :
       store' = [GlobalsMap_loadFromDisk(store, Root, fail).st EXCEPT
                   !.last = [op |-> "load",
                             ok |-> GlobalsMap_loadFromDisk(store, Root,
                                                            fail).ok,
                             at |-> GlobalsMap_loadFromDisk(store, Root,
                                                            fail).at]]
  /\ UNCHANGED <<runnerVars, driver, abi, yield>>

\* a file that begins as a document of the model and does not end as one
HalfDocument == <<<<"Arch", ArchNames[2]>>>> \o Junk

\* another program removes a file of the directory, or leaves one there
\* that is no document
TouchFile ==
  /\ \E n \in AllGlobalNames, b \in {NoFile, Junk, HalfDocument} :
       /\ store.files[GlobalPath(store.build, Root, n)] # b
       /\ store' = [store EXCEPT
                      !.files[GlobalPath(store.build, Root, n)] = b,
                      !.last = [op |-> "touch", ok |-> TRUE, at |-> 0]]
  /\ UNCHANGED <<runnerVars, driver, abi, yield>>

NextDisk == MutateLoaded \/ StoreToDisk \/ LoadFromDisk \/ TouchFile

SpecDisk == InitDisk /\ [][NextDisk]_vars

\* C14: after a storeToDisk(root) that succeeded, the file root/context/N
\* of every Global N holds the serialized value of N
C14_GlobalsAreStoredUnderContext ==
  (store.last.op = "store" /\ store.last.ok) =>
     \A n \in AllGlobalNames :
        store.files[Root \o <<"context", n>>]
          = TupleTree_serialize(store.map[n].type, store.map[n].value)

\* ---------------------------------------------------------------------
\* Expansion of Targets against a context the Analyses change
\* ---------------------------------------------------------------------

\* the Targets a caller expands: every concrete one and the wildcard
Expandable == ConcreteTargets \cup {FunctionT(Wildcard)}

\* Entry.expand(Manager.context(), ToDump): last.exec is the list, and
\* last.again tells that the expansion before it was of the same Target
ExpandTarget(t) ==
  /\ last' = [NoLast EXCEPT !.op = "expand",
                !.request = Single("functions", t),
                !.exec = Target_expand(t, globals),
                !.again = /\ last.op = "expand"
                          /\ last.request = Single("functions", t)]
  /\ UNCHANGED <<globals, steps, allocated, others>>

ExpandAny == \E t \in Expandable : ExpandTarget(t)

NextExpand == LoadInput \/ RunAnalysis \/ ExpandAny

SpecExpand == Init /\ [][NextExpand]_vars

PipeIndex(step, pipe) ==
  CHOOSE i \in 1..Len(StepPipes[step]) : StepPipes[step][i] = pipe

\* invocation x of a run comes before invocation y in the fixed order
RunsBefore(x, y) ==
  \/ StepIndex(x.step) < StepIndex(y.step)
  \/ /\ x.step = y.step
     /\ PipeIndex(x.step, x.pipe) < PipeIndex(y.step, y.pipe)

\* C17: the Pipe invocations of a run form one sequence in which every Pipe
\* of a Step comes before every Pipe of a later Step and the Pipes of one
\* Step come in their declared order; what an invocation reads was written
\* by an invocation before it or was committed, in its Step or an earlier
\* one, when the run began
C17_PipesRunInFixedOrder ==
  [][last'.op = "run" =>
       /\ \A i, j \in 1..Len(last'.exec) :
             i < j => RunsBefore(last'.exec[i], last'.exec[j])
       /\ \A j \in 1..Len(last'.exec) :
             \A t \in last'.exec[j].targets :
                \/ \E i \in 1..(j - 1) :
                      /\ Pipes[last'.exec[i].pipe].to
                           = Pipes[last'.exec[j].pipe].from
                      /\ PipeInput(Pipes[last'.exec[j].pipe], t)
                           \in last'.exec[i].targets
                \/ \E s \in StepNames :
                      /\ StepIndex(s) <= StepIndex(last'.exec[j].step)
                      /\ PipeInput(Pipes[last'.exec[j].pipe], t)
                           \in steps[s][Pipes[last'.exec[j].pipe].from]
    ]_vars

C17_Witness ==
  /\ last.op = "run" /\ last.ok /\ Len(last.exec) = 3
  /\ last.exec[1].pipe = "Lift" /\ last.exec[2].pipe = "Isolate"
  /\ last.exec[3].pipe = "Decompile"
  /\ Cardinality(last.exec[3].targets) = 2

\* ---------------------------------------------------------------------
\* The artifact driver: main of tools/pipeline/artifact/Main.cpp
\* ---------------------------------------------------------------------

\* the container and the Kind of the artifact of a Step; the first Step has
\* none
StepArtifacts ==
  [Lift |-> [container |-> "model", kind |-> "Root"],
   Decompile |-> [container |-> "decompiled", kind |-> "Function"]]

Slash == "/"

\* StringRef::split(Components, "/"): the pieces between the separators,
\* empty ones kept; a text is the sequence of its pieces and separators
RECURSIVE Split(_)
Split(text) ==
  IF \A i \in 1..Len(text) : text[i] # Slash
    THEN <<text>>
  ELSE <<SubSeq(text, 1,
                (CHOOSE i \in 1..Len(text) :
                   /\ text[i] = Slash
                   /\ \A j \in 1..(i - 1) : text[j] # Slash) - 1)>>
         \o Split(SubSeq(text,
                         (CHOOSE i \in 1..Len(text) :
                            /\ text[i] = Slash
                            /\ \A j \in 1..(i - 1) : text[j] # Slash) + 1,
                         Len(text)))

\* the text of one piece
PieceText(piece) == IF piece = <<>> THEN "" ELSE piece[1]

\* Argument.drop_front() split at "/"
Components(Argument) ==
  [i \in 1..Len(Split(Tail(Argument))) |->
     PieceText(Split(Tail(Argument))[i])]

\* Target(*Kind): every Target of the Kind
Target_all(Kind) ==
  [kind |-> Kind, path |-> [i \in 1..RankDepth[Kind] |-> Wildcard]]

\* a construction that takes any number of components
Target_unchecked(PathComponents, Kind) ==
  [ok |-> TRUE, err |-> "",
   target |-> [kind |-> Kind, path |-> PathComponents]]

\* Target(Components, *Kind)
Target(PathComponents, Kind) ==
  IF Len(PathComponents) # RankDepth[Kind]
    THEN [ok |-> FALSE, err |-> "InvalidRequestError",
          target |-> Target_all(Kind)]
    ELSE [ok |-> TRUE, err |-> "",
          target |-> [kind |-> Kind, path |-> PathComponents]]

\* the texts of the positional arguments after the input binary
FunctionArgument(a) == <<Slash, a>>

NestedArgument == <<Slash, AddressNames[1], Slash, AddressNames[2]>>

BareSlash == <<Slash>>

\* the lists of positional arguments the driver is started with
ArgumentLists ==
  {<<>>, <<"Decompile">>, <<"Lift", "binary">>, <<"Decompile", "binary">>,
   <<"UnknownStep", "binary">>,
   <<"Decompile", "binary", NestedArgument>>,
   <<"Lift", "binary", BareSlash>>,
   <<"Decompile", "binary", FunctionArgument(AddressNames[1]),
     FunctionArgument(AddressNames[2])>>}
    \cup {<<"Decompile", "binary", FunctionArgument(a)>> : a \in Addresses}

\* the model a file given with -m holds
OverridingModel ==
  [DefaultModel EXCEPT !.Functions =
     [a \in Addresses |-> IF a = AddressNames[MaxFunctions]
                            THEN Absent ELSE "foo"]]

NotWritten == [written |-> FALSE, targets |-> {}]

InitDriver ==
  /\ RunnerIdle /\ store = Idle /\ abi = Idle /\ yield = Idle
  /\ \E args \in ArgumentLists, flags \in [1..4 -> BOOLEAN] :
       driver = [pc |-> "makeManager", status |-> "running", err |-> "",
                 Arguments |-> args, ModelOverride |-> flags[1],
                 AnalyzeAll |-> flags[2], ListArtifacts |-> flags[3],
                 SaveModel |-> flags[4],
                 Map |-> EmptyMap, listed |-> <<>>, stored |-> FALSE,
                 output |-> NotWritten, saved |-> FALSE]

At(pc) == driver.status = "running" /\ driver.pc = pc

\* AbortOnError on an error: the process ends with a non-zero status
Abort(err) == [driver EXCEPT !.status = "error", !.err = err]

Goto(pc) == [driver EXCEPT !.pc = pc]

Exit == [driver EXCEPT !.status = "success"]

runnerAndOthers == <<globals, steps, allocated, last, store, abi, yield>>

\* auto Manager = AbortOnError(makeManager())
MakeManager ==
  /\ At("makeManager")
  /\ \/ driver' = Abort("ConfigurationError")
     \/ driver' = Goto("overrideModel")
  /\ UNCHANGED runnerAndOthers

\* if (not ModelOverride.empty()) AbortOnError(Manager.overrideModel(...))
OverrideModel ==
  /\ At("overrideModel")
  /\ IF ~driver.ModelOverride
       THEN driver' = Goto("arguments") /\ UNCHANGED globals
       ELSE \/ driver' = Abort("IOError") /\ UNCHANGED globals
            \/ /\ driver' = Goto("arguments")
               /\ globals' = [globals EXCEPT !["model"] = OverridingModel]
  /\ UNCHANGED <<steps, allocated, last, store, abi, yield>>

\* the names of the Steps that have an artifact, in Step order
RECURSIVE ArtifactSteps(_)
ArtifactSteps(i) ==
  IF i > Len(StepOrder) THEN <<>>
  ELSE (IF StepOrder[i] \in DOMAIN StepArtifacts
          THEN <<StepOrder[i]>> ELSE <<>>) \o ArtifactSteps(i + 1)

\* no positional argument: the Steps are listed; one: an error
CheckArguments ==
  /\ At("arguments")
  /\ driver' =
       IF Len(driver.Arguments) = 0
         THEN [Exit EXCEPT !.listed = ArtifactSteps(1)]
       ELSE IF Len(driver.Arguments) = 1
         THEN Abort("expected any number of positional arguments different from 1")
       ELSE Goto("loadInput")
  /\ UNCHANGED runnerAndOthers

\* AbortOnError(InputContainer.loadFromDisk(Arguments[1]))
LoadInputFile ==
  /\ At("loadInput")
  /\ \/ driver' = Abort("IOError") /\ UNCHANGED <<steps, allocated>>
     \/ /\ driver' = Goto("analyzeAll")
        /\ steps' = [steps EXCEPT ![StepOrder[1]]["input"] = {BinaryT}]
        /\ allocated' = [allocated EXCEPT ![StepOrder[1]] = @ \cup {"input"}]
  /\ UNCHANGED <<globals, last, store, abi, yield>>

\* if (AnalyzeAll) AbortOnError(Manager.getRunner().runAllAnalyses())
AnalyzeAllTargets ==
  /\ At("analyzeAll")
  /\ IF ~driver.AnalyzeAll
       THEN driver' = Goto("containsStep") /\ UNCHANGED <<globals, steps>>
       ELSE \E fail \in Failures(Len(AnalysesRegistry)) :
              \E r \in {runAnalyses(AnalysesRegistry, 1, fail,
                                    [ok |-> TRUE, err |-> "",
                                     globals |-> globals, steps |-> steps],
                                    allocated)} :
                 /\ globals' = r.globals
                 /\ steps' = r.steps
                 /\ driver' = IF r.ok THEN Goto("containsStep")
                                      ELSE Abort(r.err)
  /\ UNCHANGED <<allocated, last, store, abi, yield>>

\* if (not Manager.getRunner().containsStep(Arguments[0])) ...
FindStep ==
  /\ At("containsStep")
  /\ driver' = IF driver.Arguments[1] \in StepNames
                 THEN Goto("list") ELSE Abort("no known artifact named")
  /\ UNCHANGED runnerAndOthers

ArtifactOf(d) == StepArtifacts[d.Arguments[1]]

\* the lists of the expansions of the entries, one after the other
RECURSIVE ExpandEntries(_, _)
ExpandEntries(State, g) ==
  IF State = <<>> THEN <<>>
  ELSE Target_expand(Head(State), g) \o ExpandEntries(Tail(State), g)

\* if (ListArtifacts): every possible Target of the artifact is expanded
\* and dumped
ListTargets ==
  /\ At("list")
  /\ driver' =
       IF driver.ListArtifacts
         THEN [Exit EXCEPT
                 !.listed = ExpandEntries(<<Target_all(ArtifactOf(driver).kind)>>,
                                          globals)]
         ELSE Goto("targets")
  /\ UNCHANGED runnerAndOthers

\* Map.add(ContainerName, Target(Components, *Kind)) for the arguments from
\* the i-th on; r is [ok, err, Map]
RECURSIVE AddTargets(_, _, _)
AddTargets(d, i, r) ==
  IF i > Len(d.Arguments) \/ ~r.ok THEN r
  ELSE AddTargets(d, i + 1,
         IF Target(Components(d.Arguments[i]), ArtifactOf(d).kind).ok
           THEN [r EXCEPT !.Map[ArtifactOf(d).container] =
                   @ \cup {Target(Components(d.Arguments[i]),
                                  ArtifactOf(d).kind).target}]
           ELSE [r EXCEPT !.ok = FALSE,
                          !.err = Target(Components(d.Arguments[i]),
                                         ArtifactOf(d).kind).err])

\* the request of the driver
main_Map(d) ==
  IF Len(d.Arguments) = 2
    THEN [ok |-> TRUE, err |-> "",
          Map |-> Single(ArtifactOf(d).container,
                         Target_all(ArtifactOf(d).kind))]
    ELSE AddTargets(d, 3, [ok |-> TRUE, err |-> "", Map |-> EmptyMap])

BuildMap ==
  /\ At("targets")
  /\ driver' = IF main_Map(driver).ok
                 THEN [Goto("run") EXCEPT !.Map = main_Map(driver).Map]
                 ELSE Abort(main_Map(driver).err)
  /\ UNCHANGED runnerAndOthers

\* AbortOnError(Manager.getRunner().run(Step.getName(), Map))
RunStep ==
  /\ At("run")
  /\ \E failPipe \in FailChoices(driver.Arguments[1], driver.Map) :
       \E out \in {RunOutcome(driver.Arguments[1], driver.Map, failPipe)} :
          /\ steps' = out.steps
          /\ allocated' = Allocate(allocated, out.steps)
          /\ last' = [NoLast EXCEPT !.op = "run", !.ok = out.ok,
                        !.err = out.err, !.step = driver.Arguments[1],
                        !.request = driver.Map, !.exec = out.exec]
          /\ driver' = IF out.ok THEN Goto("storeToDisk") ELSE Abort(out.err)
  /\ UNCHANGED <<globals, store, abi, yield>>

\* AbortOnError(Manager.storeToDisk())
StoreExecutionDirectory ==
  /\ At("storeToDisk")
  /\ \/ driver' = Abort("IOError")
     \/ driver' = [Goto("produce") EXCEPT !.stored = TRUE]
  /\ UNCHANGED runnerAndOthers

\* Produced = cloneFiltered(Map.at(ContainerName)); storeToDisk(Output)
WriteArtifact ==
  /\ At("produce")
  /\ \/ driver' = Abort("IOError")
     \/ driver' =
          [Goto("saveModel") EXCEPT
             !.output =
                [written |-> TRUE,
                 targets |->
                   main_Produced(steps[driver.Arguments[1]]
                                      [ArtifactOf(driver).container],
                                 driver.Map[ArtifactOf(driver).container])]]
  /\ UNCHANGED runnerAndOthers

\* if (not SaveModel.empty()) the model Global is written; EXIT_SUCCESS
SaveModelFile ==
  /\ At("saveModel")
  /\ IF ~driver.SaveModel
       THEN driver' = Exit
       ELSE \/ driver' = Abort("IOError")
            \/ driver' = [Exit EXCEPT !.saved = TRUE]
  /\ UNCHANGED runnerAndOthers

NextDriver ==
  \/ MakeManager \/ OverrideModel \/ CheckArguments \/ LoadInputFile
  \/ AnalyzeAllTargets \/ FindStep \/ ListTargets \/ BuildMap \/ RunStep
  \/ StoreExecutionDirectory \/ WriteArtifact \/ SaveModelFile

SpecDriver == InitDriver /\ [][NextDriver]_vars

\* C18: when the driver has ended with an error, the artifact is not
\* written
C18_ErrorExitLeavesNoArtifact ==
  driver.status = "error" => ~driver.output.written

\* the arguments of the driver that name Targets
MalformedArguments(d) ==
  {i \in 3..Len(d.Arguments) :
     Len(Components(d.Arguments[i])) # RankDepth[ArtifactOf(d).kind]}

MaxThreads == 2

\* calls of Definition::get one thread makes
MaxCalls == 2

Threads == 1..MaxThreads

\* the ABIs the models of the Runners name; none of them is Invalid
ABINames == {"SystemV_x86_64", "AAPCS64"}

NoThread == 0

\* DefinitionCache is a static map no lock protects; writer is the thread
\* inside try_emplace
InitThreads ==
  /\ RunnerIdle /\ store = Idle /\ driver = Idle /\ yield = Idle
  /\ abi = [DefinitionCache |-> {}, writer |-> NoThread, failed |-> "none",
            threads |-> [t \in Threads |->
                           [pc |-> "idle", ABI |-> "", calls |-> 0]]]

Running(t, pc) == abi.failed = "none" /\ abi.threads[t].pc = pc

\* a Pipe or an Analysis of the Runner of thread t calls Definition::get
Definition_get(t) ==
  /\ Running(t, "idle")
  /\ abi.threads[t].calls < MaxCalls
  /\ \E ABI \in ABINames :
       abi' = [abi EXCEPT !.threads[t] = [pc |-> "find", ABI |-> ABI,
                                          calls |-> @.calls + 1]]
  /\ UNCHANGED <<runnerVars, store, driver, yield>>

\* what a read or a write of the map gives while another thread writes
\* it: the behaviour is undefined, so the call sees the entry, or does not,
\* or the process is lost
Racing(t) == abi.writer \notin {NoThread, t}

\* DefinitionCache.find(ABI)
CacheFind(t) ==
  /\ Running(t, "find")
  /\ \/ /\ abi.threads[t].ABI \in abi.DefinitionCache \/ Racing(t)
        /\ abi' = [abi EXCEPT !.threads[t].pc = "return"]
     \/ /\ abi.threads[t].ABI \notin abi.DefinitionCache \/ Racing(t)
        /\ abi' = [abi EXCEPT !.threads[t].pc = "load"]
     \/ /\ Racing(t)
        /\ abi' = [abi EXCEPT !.failed = "undefined behaviour"]
  /\ UNCHANGED <<runnerVars, store, driver, yield>>

\* the definition is found, parsed and verified
LoadDefinition(t) ==
  /\ Running(t, "load")
  /\ abi' = [abi EXCEPT !.threads[t].pc = "emplace"]
  /\ UNCHANGED <<runnerVars, store, driver, yield>>

\* DefinitionCache.try_emplace(ABI, ...) begins
BeginEmplace(t) ==
  /\ Running(t, "emplace")
  /\ abi' = IF Racing(t)
              THEN [abi EXCEPT !.failed = "undefined behaviour"]
              ELSE [abi EXCEPT !.writer = t, !.threads[t].pc = "emplacing"]
  /\ UNCHANGED <<runnerVars, store, driver, yield>>

\* try_emplace ends; revng_assert(Success)
EndEmplace(t) ==
  /\ Running(t, "emplacing")
  /\ abi' = IF abi.threads[t].ABI \in abi.DefinitionCache
              THEN [abi EXCEPT !.writer = NoThread,
                               !.failed = "revng_assert(Success)"]
              ELSE [abi EXCEPT !.writer = NoThread,
                               !.DefinitionCache = @ \cup {abi.threads[t].ABI},
                               !.threads[t].pc = "return"]
  /\ UNCHANGED <<runnerVars, store, driver, yield>>

\* return It->second
ReturnDefinition(t) ==
  /\ Running(t, "return")
  /\ abi' = [abi EXCEPT !.threads[t].pc = "idle"]
  /\ UNCHANGED <<runnerVars, store, driver, yield>>

NextThreads ==
  \E t \in Threads :
     \/ Definition_get(t) \/ CacheFind(t) \/ LoadDefinition(t)
     \/ BeginEmplace(t) \/ EndEmplace(t) \/ ReturnDefinition(t)

SpecThreads == InitThreads /\ [][NextThreads]_vars

\* C19: whatever the interleaving of the threads, no assertion fails and
\* the process is not lost
C19_NoAssertionFailsInAnyInterleaving == abi.failed = "none"

\* ---------------------------------------------------------------------
\* abi::Definition::alignment
\* ---------------------------------------------------------------------

\* ABI definitions: the alignment of the integer and of the floating
\* point scalars of every size the ABI has
ABIDefinitions ==
  {[ScalarTypes |-> 2 :> 2 @@ 4 :> 4 @@ 8 :> 8,
    FloatingPointScalarTypes |-> 8 :> 8],
   [ScalarTypes |-> 2 :> 2 @@ 4 :> 4 @@ 8 :> 4,
    FloatingPointScalarTypes |-> 8 :> 4],
   [ScalarTypes |-> 2 :> 2 @@ 4 :> 4,
    FloatingPointScalarTypes |-> 8 :> 8]}

\* the sizes a table of scalars has
SizesOf(table) == DOMAIN table

alignedAt(table, size) == table[size]

PrimitiveTypes ==
  {[kind |-> "PrimitiveType", PrimitiveKind |-> "Signed", Size |-> 4],
   [kind |-> "PrimitiveType", PrimitiveKind |-> "Signed", Size |-> 8],
   [kind |-> "PrimitiveType", PrimitiveKind |-> "Float", Size |-> 8]}

\* the offsets of the fields of a struct (the indexes of those of a
\* union), in the order of the sorted container of fields
FieldKeys == <<0, 4, 6>>

KeySet == {FieldKeys[i] : i \in 1..Len(FieldKeys)}

NoField == [kind |-> "none"]

AggregateKinds == {"StructType", "UnionType"}

\* the aggregates whose fields, one at least, are of the given types
AggregatesOver(types) ==
  {[kind |-> k, Fields |-> f] :
     k \in AggregateKinds,
     f \in {g \in [KeySet -> types \cup {NoField}] :
              \E key \in KeySet : g[key] # NoField}}

FlatAggregates == AggregatesOver(PrimitiveTypes)

\* the aggregates that hold one aggregate and at most one primitive
NestedAggregates ==
  {[kind |-> k,
    Fields |-> [key \in KeySet |->
                  IF key = at THEN inner
                  ELSE IF key = other THEN p ELSE NoField]] :
     k \in AggregateKinds, at \in KeySet, inner \in FlatAggregates,
     other \in KeySet, p \in PrimitiveTypes \cup {NoField}}

Types == PrimitiveTypes \cup FlatAggregates \cup NestedAggregates

NoAlignment == [ok |-> FALSE, Value |-> 0, IsNatural |-> FALSE]

Max2(a, b) == IF a >= b THEN a ELSE b

\* an aggregate taken to be aligned as a byte
fieldAlignmentOfNone(ABI, Type) == [ok |-> TRUE, Value |-> 1, IsNatural |-> TRUE]

RECURSIVE naturalAlignment(_, _)
RECURSIVE fieldAlignmentFrom(_, _, _, _)

\* the loop of fieldAlignment from the i-th field on
fieldAlignmentFrom(ABI, Type, i, Result) ==
  IF i > Len(FieldKeys) THEN Result
  ELSE IF Type.Fields[FieldKeys[i]] = NoField
    THEN fieldAlignmentFrom(ABI, Type, i + 1, Result)
  ELSE IF ~naturalAlignment(ABI, Type.Fields[FieldKeys[i]]).ok
    THEN NoAlignment
  ELSE fieldAlignmentFrom(ABI, Type, i + 1,
         [ok |-> TRUE,
          Value |-> Max2(Result.Value,
                         naturalAlignment(ABI,
                                          Type.Fields[FieldKeys[i]]).Value),
          IsNatural |->
             /\ Result.IsNatural
             /\ naturalAlignment(ABI, Type.Fields[FieldKeys[i]]).IsNatural
             /\ Type.kind = "StructType" =>
                  FieldKeys[i]
                    % naturalAlignment(ABI,
                                       Type.Fields[FieldKeys[i]]).Value = 0])

fieldAlignment(ABI, Type) ==
  fieldAlignmentFrom(ABI, Type, 1, [ok |-> TRUE, Value |-> 1,
                                    IsNatural |-> TRUE])

naturalAlignment(ABI, Type) ==
  IF Type.kind = "PrimitiveType"
    THEN IF Type.PrimitiveKind = "Void"
           THEN [ok |-> TRUE, Value |-> 0, IsNatural |-> TRUE]
         ELSE IF Type.PrimitiveKind = "Float"
           THEN IF Type.Size \in SizesOf(ABI.FloatingPointScalarTypes)
                  THEN [ok |-> TRUE,
                        Value |-> alignedAt(ABI.FloatingPointScalarTypes,
                                            Type.Size),
                        IsNatural |-> TRUE]
                  ELSE NoAlignment
         ELSE IF Type.Size \in SizesOf(ABI.ScalarTypes)
           THEN [ok |-> TRUE, Value |-> alignedAt(ABI.ScalarTypes, Type.Size),
                 IsNatural |-> TRUE]
           ELSE NoAlignment
    ELSE fieldAlignment(ABI, Type)

\* Definition::alignment: revng_abort when the computation gives nothing,
\* no value for a type without size, 1 for a type that is not natural
Definition_alignment(ABI, Type) ==
  IF ~naturalAlignment(ABI, Type).ok
    THEN [status |-> "abort", value |-> 0]
  ELSE IF naturalAlignment(ABI, Type).Value = 0
    THEN [status |-> "nullopt", value |-> 0]
  ELSE [status |-> "value",
        value |-> IF naturalAlignment(ABI, Type).IsNatural
                    THEN naturalAlignment(ABI, Type).Value ELSE 1]

\* Definition::hasNaturalAlignment
Definition_hasNaturalAlignment(ABI, Type) ==
  IF ~naturalAlignment(ABI, Type).ok
    THEN [status |-> "abort", value |-> FALSE]
  ELSE IF naturalAlignment(ABI, Type).Value = 0
    THEN [status |-> "nullopt", value |-> FALSE]
  ELSE [status |-> "value", value |-> naturalAlignment(ABI, Type).IsNatural]

NotAsked(value) == [status |-> "not asked", value |-> value]

InitAlignment ==
  /\ RunnerIdle /\ store = Idle /\ driver = Idle /\ yield = Idle
  /\ \E ABI \in ABIDefinitions, Type \in Types :
       abi = [ABI |-> ABI, Type |-> Type, alignment |-> NotAsked(0),
              natural |-> NotAsked(FALSE)]

Alignment ==
  /\ abi.alignment.status = "not asked"
  /\ abi' = [abi EXCEPT !.alignment = Definition_alignment(abi.ABI, abi.Type)]
  /\ UNCHANGED <<runnerVars, store, driver, yield>>

HasNaturalAlignment ==
  /\ abi.natural.status = "not asked"
  /\ abi' = [abi EXCEPT !.natural =
               Definition_hasNaturalAlignment(abi.ABI, abi.Type)]
  /\ UNCHANGED <<runnerVars, store, driver, yield>>

NextAlignment == Alignment \/ HasNaturalAlignment

SpecAlignment == InitAlignment /\ [][NextAlignment]_vars

\* the types of the fields of an aggregate
FieldsOf(Type) ==
  {Type.Fields[key] : key \in {k \in KeySet : Type.Fields[k] # NoField}}

IsAggregate(Type) == Type.kind \in AggregateKinds

\* every field of the type, and of every aggregate in it, lies at an
\* offset that is a multiple of the alignment of the field
RECURSIVE NaturallyPlaced(_, _)
NaturallyPlaced(ABI, Type) ==
  IsAggregate(Type) =>
    \A key \in {k \in KeySet : Type.Fields[k] # NoField} :
       /\ NaturallyPlaced(ABI, Type.Fields[key])
       /\ Definition_alignment(ABI, Type.Fields[key]).status = "value"
       /\ Type.kind = "StructType" =>
            key % Definition_alignment(ABI, Type.Fields[key]).value = 0

\* the greatest alignment of a field
MaxFieldAlignment(ABI, Type) ==
  CHOOSE m \in {Definition_alignment(ABI, f).value : f \in FieldsOf(Type)} :
     \A f \in FieldsOf(Type) : Definition_alignment(ABI, f).value <= m

\* the aggregate without the field at key
WithoutField(Type, key) == [Type EXCEPT !.Fields[key] = NoField]

C21_EveryKindIsAskedForEveryContainer ==
  last.op \in AnalysisOps =>
     /\ DOMAIN InvalidationEvent_getInvalidations(last.diff, allocated)
          = StepNames
     /\ \A s \in StepNames :
           /\ DOMAIN InvalidationEvent_getInvalidations(last.diff,
                                                        allocated)[s]
                = allocated[s]
           /\ \A c \in allocated[s] :
                 InvalidationEvent_getInvalidations(last.diff,
                                                    allocated)[s][c]
                   = UNION {Kind_getInvalidations(KindsRegistry[i], last.diff) :
                              i \in 1..Len(KindsRegistry)}

C21_Witness ==
  /\ last.op = "runAnalysis" /\ last.ok
  /\ "model" \in allocated["Lift"] /\ "decompiled" \notin allocated["Lift"]
  /\ allocated["Decompile"] = {}
  /\ FunctionT(AddressNames[1])
       \in InvalidationEvent_getInvalidations(last.diff,
                                              allocated)["Lift"]["model"]

\* C25: a runAnalysis whose event fails in Runner.getInvalidations removes
\* no Target of any Container; one that succeeds removes exactly what
\* Runner.invalidate removes for the map the two collections produced
C25_FailedPropagationRemovesNothing ==
  [][last'.op = "runAnalysis" =>
       /\ last'.err = "InvalidationError" => steps' = steps
       /\ last'.ok =>
            steps' = Runner_invalidate(
                       Runner_getInvalidations(
                         InvalidationEvent_getInvalidations(last'.diff,
                                                            allocated),
                         FALSE).Map,
                       steps)
    ]_vars

C25_Witness ==
  /\ last.op = "runAnalysis" /\ ~last.ok /\ last.err = "InvalidationError"
  /\ "Arch" \in last.diff
  /\ RootT \in steps["Lift"]["model"]
  /\ RootT \in InvalidationEvent_getInvalidations(last.diff,
                                                  allocated)["Lift"]["model"]

\* ---------------------------------------------------------------------
\* Failures of storeToDisk and loadFromDisk
\* ---------------------------------------------------------------------

\* the Global the last operation on the directory failed at
FailedGlobal(st) == GlobalOrder[st.last.at]

FileOf(st, n) == st.files[GlobalPath(st.build, Root, n)]

\* C22: a loadFromDisk that fails at a Global, because its file cannot be
\* read or is not a document of its type, leaves the value of that Global
\* as it was before the call
C22_FailedLoadKeepsTheGlobal ==
  [][(store'.last.op = "load" /\ ~store'.last.ok) =>
       store'.map[FailedGlobal(store')] = store.map[FailedGlobal(store')]
    ]_vars

C22_Witness ==
  /\ store.last.op = "load" /\ ~store.last.ok
  /\ FailedGlobal(store) = "model"
  /\ FileOf(store, "model") = HalfDocument
  /\ store.map["model"].value.Arch = 0
  /\ store.map["model"].value.Functions[AddressNames[1]] = "bar"

\* the Globals a call that ended at Global number at (0: at none) visited
Visited(at) ==
  {GlobalOrder[i] : i \in 1..(IF at = 0 THEN Len(GlobalOrder) ELSE at)}

\* C26: a load clears every Global it visits whose file does not exist,
\* and fails only at a Global whose file exists; a load from a directory
\* without files succeeds and leaves every Global at its default value
C26_MissingFileClearsTheGlobal ==
  [][store'.last.op = "load" =>
       /\ \A n \in Visited(store'.last.at) :
             FileOf(store, n) = NoFile =>
                store'.map[n].value = DefaultValue(store.map[n].type)
       /\ ~store'.last.ok => FileOf(store, FailedGlobal(store')) # NoFile
       /\ (\A n \in AllGlobalNames : FileOf(store, n) = NoFile) =>
             /\ store'.last.ok
             /\ \A n \in AllGlobalNames :
                   store'.map[n].value = DefaultValue(store.map[n].type)
    ]_vars

C26_Witness ==
  /\ store.last.op = "load" /\ store.last.ok
  /\ \A n \in AllGlobalNames : FileOf(store, n) = NoFile
  /\ store.map["model"].value = DefaultValue("Binary")
  /\ store.contextDir

\* C27: a store or a load that fails at a Global has stored or loaded the
\* Globals before it and leaves the files and the values of the Globals
\* after it as they were; a call that succeeds has stored or loaded every
\* Global
C27_FirstFailureEndsTheCall ==
  [][/\ store'.last.op \in {"store", "load"} =>
          (store'.last.ok <=> store'.last.at = 0)
     /\ store'.last.op = "store" =>
          /\ store'.map = store.map
          /\ \A n \in AllGlobalNames :
                FileOf(store', n) =
                   IF n \in Visited(store'.last.at)
                        /\ (store'.last.ok \/ n # FailedGlobal(store'))
                     THEN TupleTree_serialize(store.map[n].type,
                                              store.map[n].value)
                     ELSE FileOf(store, n)
     /\ store'.last.op = "load" =>
          /\ store'.files = store.files
          /\ \A n \in AllGlobalNames \ Visited(store'.last.at) :
                store'.map[n] = store.map[n]
          /\ \A n \in Visited(store'.last.at) :
                (store'.last.ok \/ n # FailedGlobal(store')) =>
                   store'.map[n].value =
                      IF FileOf(store, n) = NoFile
                        THEN DefaultValue(store.map[n].type)
                        ELSE TupleTree_deserialize(store.map[n].type,
                                                   FileOf(store, n)).value
    ]_vars

C27_Witness ==
  /\ store.last.op = "store" /\ ~store.last.ok /\ store.last.at = 1
  /\ FileOf(store, GlobalOrder[2]) = NoFile
  /\ FileOf(store, GlobalOrder[1]) # NoFile
  /\ FileOf(store, GlobalOrder[1])
       # TupleTree_serialize(store.map[GlobalOrder[1]].type,
                             store.map[GlobalOrder[1]].value)

\* the paths at which the Global g differs from the Global o
TupleTreeDiffOf(g, o) == ValueDiff(g.type, g.value, o.value)

\* C28: the diff of a map against a map with the same names has exactly
\* one entry per name of the receiver, the diff of the receiver's Global
\* against the other's; taken right after one of the two maps was copied
\* from the other, every entry is empty; and taking it changes neither map
C28_DiffHasOneEntryPerGlobal ==
  [][store'.last.op = "diff" =>
       /\ DOMAIN store'.last.diff = Named(store.maps[store'.last.side])
       /\ \A n \in Named(store.maps[store'.last.side]) :
             store'.last.diff[n] =
                TupleTreeDiffOf(
                  store.heap[store.maps[store'.last.side][n]],
                  store.heap[store.maps[store'.last.name][n]])
       /\ (store.last.op = "copy" /\ store.last.side # store.last.name) =>
             \A n \in DOMAIN store'.last.diff : store'.last.diff[n] = {}
       /\ store'.heap = store.heap /\ store'.maps = store.maps
    ]_vars

C28_Witness ==
  /\ store.last.op = "diff"
  /\ DOMAIN store.last.diff = AllGlobalNames
  /\ store.last.diff["model"] # {}
  /\ store.last.diff["settings"] = {}

(***************************************************************************)
(* NonRecursiveMutex (the TraceLock of the traced PipelineC functions)     *)
(***************************************************************************)
\* driver.ThreadId: the std::optional, its flag and the id it stores (the
\* id stays in the storage when the optional is reset); driver.TheLock: the
\* thread that owns the std::mutex; a thread is at one statement (pc) of
\* lock() or unlock(), outside of both ("out") or between the return of
\* lock() and its call of unlock() ("in"); holds: its lock() was called
\* while it was "in"
NoAssertion == [what |-> "none", by |-> NoThread, holder |-> FALSE]

InitMutex ==
  /\ RunnerIdle /\ store = Idle /\ abi = Idle /\ yield = Idle
  /\ driver = [ThreadId |-> [engaged |-> FALSE, payload |-> NoThread],
               TheLock |-> NoThread,
               failed |-> NoAssertion,
               threads |-> [t \in Threads |->
                              [pc |-> "out", holds |-> FALSE, calls |-> 0]]]

InLock(t, pc) == driver.failed.what = "none" /\ driver.threads[t].pc = pc

Step(t, pc) == [driver EXCEPT !.threads[t].pc = pc]

\* revng_assert fails in thread t
AssertionFails(t, what) ==
  [driver EXCEPT !.failed = [what |-> what, by |-> t,
                             holder |-> driver.threads[t].holds]]

\* *ThreadId: the stored id; on an optional that is not engaged the read
\* returns the id left in the storage or, with a checked library, aborts
Dereference == {"id"} \cup (IF driver.ThreadId.engaged THEN {} ELSE {"abort"})

\* a thread calls lock(), from outside or while it holds the lock
CallLock(t) ==
  /\ driver.failed.what = "none"
  /\ driver.threads[t].pc \in {"out", "in"}
  /\ driver.threads[t].calls < MaxCalls
  /\ driver' = [driver EXCEPT !.threads[t] =
                  [pc |-> "has_value", holds |-> (@.pc = "in"),
                   calls |-> @.calls + 1]]
  /\ UNCHANGED runnerAndOthers

\* lock(): if (ThreadId.has_value())
HasValue(t) ==
  /\ InLock(t, "has_value")
  /\ driver' = Step(t, IF driver.ThreadId.engaged THEN "assert" ELSE "lock")
  /\ UNCHANGED runnerAndOthers

\* lock(): revng_assert(std::this_thread::get_id() != *ThreadId, ...)
AssertNotEntered(t) ==
  /\ InLock(t, "assert")
  /\ \E read \in Dereference :
        driver' = IF read = "abort"
                    THEN AssertionFails(t, "empty optional in lock")
                  ELSE IF driver.ThreadId.payload = t
                    THEN AssertionFails(t, "entered twice")
                  ELSE Step(t, "lock")
  /\ UNCHANGED runnerAndOthers

\* lock(): TheLock.lock() returns once no thread owns the std::mutex
TheLock_lock(t) ==
  /\ InLock(t, "lock")
  /\ driver.TheLock = NoThread
  /\ driver' = [Step(t, "set") EXCEPT !.TheLock = t]
  /\ UNCHANGED runnerAndOthers

\* lock(): ThreadId = std::this_thread::get_id(), and lock() returns
SetThreadId(t) ==
  /\ InLock(t, "set")
  /\ driver' = [driver EXCEPT
                  !.ThreadId = [engaged |-> TRUE, payload |-> t],
                  !.threads[t].pc = "in", !.threads[t].holds = FALSE]
  /\ UNCHANGED runnerAndOthers

\* unlock(), called by a thread whose lock() returned:
\* revng_assert(std::this_thread::get_id() == *ThreadId)
AssertHolder(t) ==
  /\ InLock(t, "in")
  /\ \E read \in Dereference :
        driver' = IF read = "abort"
                    THEN AssertionFails(t, "empty optional in unlock")
                  ELSE IF driver.ThreadId.payload # t
                    THEN AssertionFails(t, "unlock by another thread")
                  ELSE Step(t, "unlock")
  /\ UNCHANGED runnerAndOthers

\* unlock(): TheLock.unlock()
TheLock_unlock(t) ==
  /\ InLock(t, "unlock")
  /\ driver' = [Step(t, "reset") EXCEPT !.TheLock = NoThread]
  /\ UNCHANGED runnerAndOthers

\* unlock(): ThreadId.reset(), and unlock() returns
ResetThreadId(t) ==
  /\ InLock(t, "reset")
  /\ driver' = [Step(t, "out") EXCEPT !.ThreadId.engaged = FALSE]
  /\ UNCHANGED runnerAndOthers

NextMutex ==
  \E t \in Threads :
     \/ CallLock(t) \/ HasValue(t) \/ AssertNotEntered(t) \/ TheLock_lock(t)
     \/ SetThreadId(t) \/ AssertHolder(t) \/ TheLock_unlock(t)
     \/ ResetThreadId(t)

SpecMutex == InitMutex /\ [][NextMutex]_vars

\* C23: a thread that calls lock() while it holds the lock never comes to
\* wait for the std::mutex it owns itself, and the assertion of lock()
\* fails only in a thread that holds the lock
C23_ReentryFailsTheAssertion ==
  /\ \A t \in Threads :
        ~(driver.threads[t].holds /\ driver.threads[t].pc = "lock")
  /\ driver.failed.what = "entered twice" => driver.failed.holder

\* C24: a thread whose lock() returned and that has not called unlock()
\* finds its own id in ThreadId; at most one thread is in that state; and
\* unlock() neither fails its assertion nor reads an empty ThreadId
C24_HolderIsRecorded ==
  /\ \A t \in Threads :
        driver.threads[t].pc = "in" =>
           /\ driver.ThreadId.engaged
           /\ driver.ThreadId.payload = t
  /\ Cardinality({t \in Threads : driver.threads[t].pc = "in"}) <= 1
  /\ driver.failed.what
       \notin {"unlock by another thread", "empty optional in unlock"}

(***************************************************************************)
(* yield::Function: fallthrough detection and the targets of a block       *)
(***************************************************************************)
\* the basic blocks of a function start at 1..MaxBlocks
MaxBlocks == 2

\* a basic block has at most MaxEdges successors
MaxEdges == 3

\* MetaAddress::invalid()
InvalidAddress == 0

isValid(a) == a # InvalidAddress

BlockAddresses == 1..MaxBlocks

\* the valid addresses: those of the blocks and one past the last block
ValidAddresses == 1..(MaxBlocks + 1)

\* the entry of the one function that is called: the first address
Callee == CHOOSE a \in BlockAddresses : \A o \in BlockAddresses : a <= o

\* efa::FunctionEdgeBase and efa::CallEdge: DirectBranch stands for the
\* types parseSuccessor handles alike (FakeFunctionCall, Return, LongJmp,
\* ...); NoReturn: hasAttribute(Binary, Edge, FunctionAttribute::NoReturn)
AllEdges ==
  {[Type |-> "DirectBranch", Destination |-> d, NoReturn |-> FALSE] :
     d \in ValidAddresses}
    \cup {[Type |-> "FunctionCall", Destination |-> Callee, NoReturn |-> n] :
            n \in BOOLEAN}
    \cup {[Type |-> "Killer", Destination |-> InvalidAddress,
           NoReturn |-> FALSE]}

EdgeTypeOrder == <<"DirectBranch", "FunctionCall", "Killer">>

\* the key of an edge in the SortedVector: (Destination, Type)
EdgeKey(e) == <<e.Destination, IndexOf(EdgeTypeOrder, e.Type)>>

KeyLess(a, b) == a[1] < b[1] \/ (a[1] = b[1] /\ a[2] < b[2])

\* the Successors a block can have: at most MaxEdges edges, one per key
SuccessorSets ==
  {S \in SUBSET AllEdges :
     /\ Cardinality(S) <= MaxEdges
     /\ \A a \in S, b \in S : EdgeKey(a) = EdgeKey(b) => a = b}

\* the edges of a SortedVector in its order
RECURSIVE Sorted(_)
Sorted(S) ==
  IF S = {} THEN <<>>
  ELSE LET first == CHOOSE e \in S :
                       \A o \in S \ {e} : KeyLess(EdgeKey(e), EdgeKey(o))
       IN <<first>> \o Sorted(S \ {first})

\* efa::parseSuccessor(Edge, FallthroughAddress, Binary)
parseSuccessor(Edge, FallthroughAddress) ==
  IF Edge.Type = "DirectBranch"
    THEN [NextInstructionAddress |-> Edge.Destination,
          OptionalCallAddress |-> InvalidAddress]
  ELSE IF Edge.Type = "FunctionCall"
    THEN [NextInstructionAddress |->
            IF Edge.NoReturn THEN InvalidAddress ELSE FallthroughAddress,
          OptionalCallAddress |-> Edge.Destination]
  ELSE [NextInstructionAddress |-> InvalidAddress,
        OptionalCallAddress |-> InvalidAddress]

\* yield::BasicBlock::verify: Start and End are valid (the instructions and
\* the indicators it also checks are not read by the operations below)
BasicBlock_verify(Start, B) == isValid(Start) /\ isValid(B.End)

\* yield::Function::verify
Function_verify(F) ==
  /\ isValid(F.Entry)
  /\ DOMAIN F.BasicBlocks # {}
  /\ \A s \in DOMAIN F.BasicBlocks : BasicBlock_verify(s, F.BasicBlocks[s])

\* the basic blocks a function can hold under one start address
BasicBlocks ==
  [End : ValidAddresses \cup {InvalidAddress},
   IsLabelAlwaysRequired : BOOLEAN,
   Successors : SuccessorSets]

\* a function: its Entry is its first block, and its SortedVector of basic
\* blocks is keyed by Start
FunctionOf(blocks) ==
  [Entry |-> CHOOSE s \in DOMAIN blocks : \A o \in DOMAIN blocks : s <= o,
   BasicBlocks |-> blocks]

NoBlock == InvalidAddress

NotRendered == [entered |-> <<>>, lines |-> <<>>, assertion |-> "none"]

\* a function that passed verify, and no operation on it yet
InitYield ==
  /\ RunnerIdle /\ store = Idle /\ driver = Idle /\ abi = Idle
  /\ \E starts \in (SUBSET BlockAddresses) \ {{}} :
     \E blocks \in [starts -> BasicBlocks] :
        /\ Function_verify(FunctionOf(blocks))
        /\ yield = [Function |-> FunctionOf(blocks), op |-> "none", pc |-> "idle",
                    block |-> NoBlock, Result |-> <<>>, Next |-> NoBlock,
                    vertical |-> FALSE, html |-> NotRendered]

\* yield::cfg::detectFallthrough: the block at the End of the block at b
\* that needs no label and that an edge of b leads to; the assertion fails
\* at the second such edge
detectFallthrough(b, F) ==
  LET End == F.BasicBlocks[b].End
      found == {e \in F.BasicBlocks[b].Successors :
                  /\ isValid(parseSuccessor(e, End).NextInstructionAddress)
                  /\ parseSuccessor(e, End).NextInstructionAddress = End
                  /\ End \in DOMAIN F.BasicBlocks
                  /\ ~F.BasicBlocks[End].IsLabelAlwaysRequired}
  IN [block |-> IF found = {} THEN NoBlock ELSE End,
      failed |-> Cardinality(found) > 1]

\* the state after detectFallthrough was called for the block b
Detected(st, b) ==
  IF detectFallthrough(b, st.Function).failed
    THEN [st EXCEPT !.pc = "assert",
                    !.html.assertion = "Multiple targets with the same address"]
    ELSE [st EXCEPT !.pc = "loop",
                    !.Next = detectFallthrough(b, st.Function).block]

\* yield::cfg::labeledBlock up to its loop
labeledBlock(b) ==
  /\ yield.pc = "idle"
  /\ b \in DOMAIN yield.Function.BasicBlocks
  /\ yield' =
       IF ~yield.Function.BasicBlocks[b].IsLabelAlwaysRequired
         THEN [yield EXCEPT !.op = "labeledBlock", !.block = b,
                            !.pc = "done"]
         ELSE Detected([yield EXCEPT !.op = "labeledBlock", !.block = b,
                                     !.Result = <<b>>], b)
  /\ UNCHANGED <<runnerVars, store, driver, abi>>

\* the blocks a chain can hold before a block is in it twice
MaxChain == MaxBlocks + 1

\* one turn of while (Next != nullptr), or its end
FollowFallthrough ==
  /\ yield.pc = "loop"
  /\ yield.Next = NoBlock \/ Len(yield.Result) < MaxChain
  /\ yield' =
       IF yield.Next = NoBlock
         THEN [yield EXCEPT !.pc = "done"]
         ELSE Detected([yield EXCEPT !.Result = Append(@, yield.Next)],
                       yield.Next)
  /\ UNCHANGED <<runnerVars, store, driver, abi>>

UnknownTarget ==
  [NextInstructionAddress |-> InvalidAddress,
   OptionalCallAddress |-> InvalidAddress]

Rendered(helper, lines) ==
  [entered |-> <<helper>>, lines |-> lines, assertion |-> "none"]

\* the helper "by" was entered and went on to the helper that gave r
Through(by, r) == [r EXCEPT !.entered = <<by>> \o @]

\* TargetPrintingHelper::singleTarget
singleTarget(Successor, End, vertical) ==
  Rendered("singleTarget",
    IF isValid(Successor.NextInstructionAddress)
      THEN (IF isValid(Successor.OptionalCallAddress)
              THEN <<"calls", "then goes to">>
            ELSE IF Successor.NextInstructionAddress = End /\ ~vertical
              THEN <<>>
            ELSE <<"always goes to">>)
      ELSE (IF isValid(Successor.OptionalCallAddress)
              THEN <<"calls", "and does not return">>
              ELSE <<>>))

\* TargetPrintingHelper::multipleTargets
multipleTargets(Targets, HasUnknownTargets) ==
  LET CallAddresses ==
        SelectSeq(Targets, LAMBDA T : isValid(T.OptionalCallAddress))
      ValidTargets ==
        SelectSeq(Targets, LAMBDA T : isValid(T.NextInstructionAddress))
  IN IF Len(ValidTargets) = 0
       THEN [entered |-> <<"multipleTargets">>, lines |-> <<>>,
             assertion |-> "ValidTargetCount != 0"]
       ELSE Rendered("multipleTargets",
              (IF Len(CallAddresses) # 0
                 THEN <<"calls", "then goes to one of:">>
                 ELSE <<"known targets include:">>)
                \o [i \in 1..Len(ValidTargets) |-> "-"]
                \o (IF HasUnknownTargets THEN <<"and more">> ELSE <<>>))

\* TargetPrintingHelper::twoTargets
twoTargets(First, Second, End, vertical) ==
  IF isValid(First.OptionalCallAddress) \/ isValid(Second.OptionalCallAddress)
    THEN Through("twoTargets", multipleTargets(<<First, Second>>, FALSE))
  ELSE IF First.NextInstructionAddress = Second.NextInstructionAddress
    THEN Through("twoTargets", singleTarget(First, End, vertical))
  ELSE IF First.NextInstructionAddress = End
            \/ Second.NextInstructionAddress = End
    THEN Rendered("twoTargets", <<"if taken, goes to", "otherwise, goes to">>)
  ELSE Through("twoTargets", multipleTargets(<<First, Second>>, FALSE))

\* targets(BasicBlock, Function, Binary)
targetsOf(B, vertical) ==
  LET parsed == [i \in 1..Len(Sorted(B.Successors)) |->
                   parseSuccessor(Sorted(B.Successors)[i], B.End)]
      known(T) == \/ isValid(T.NextInstructionAddress)
                  \/ isValid(T.OptionalCallAddress)
      SuccessorTargets == SelectSeq(parsed, known)
      HasUnknownTargets == \E i \in 1..Len(parsed) : ~known(parsed[i])
  IN IF Len(SuccessorTargets) = 0
       THEN (IF ~HasUnknownTargets
               THEN [entered |-> <<>>, lines |-> <<>>,
                     assertion |-> "A basic block with no successors."]
               ELSE singleTarget(UnknownTarget, B.End, vertical))
     ELSE IF Len(SuccessorTargets) = 1
       THEN (IF ~HasUnknownTargets
               THEN singleTarget(SuccessorTargets[1], B.End, vertical)
               ELSE twoTargets(SuccessorTargets[1], UnknownTarget, B.End,
                               vertical))
     ELSE IF Len(SuccessorTargets) = 2 /\ ~HasUnknownTargets
       THEN twoTargets(SuccessorTargets[1], SuccessorTargets[2], B.End,
                       vertical)
     ELSE multipleTargets(SuccessorTargets, HasUnknownTargets)

\* the targets of the block b are rendered, in either layout
targets(b) ==
  /\ yield.pc = "idle"
  /\ b \in DOMAIN yield.Function.BasicBlocks
  /\ \E vertical \in BOOLEAN :
        yield' = [yield EXCEPT
                    !.op = "targets", !.block = b, !.vertical = vertical,
                    !.html = targetsOf(yield.Function.BasicBlocks[b],
                                       vertical),
                    !.pc = IF targetsOf(yield.Function.BasicBlocks[b],
                                        vertical).assertion = "none"
                             THEN "done" ELSE "assert"]
  /\ UNCHANGED <<runnerVars, store, driver, abi>>

NextYield ==
  \/ \E b \in BlockAddresses : labeledBlock(b)
  \/ FollowFallthrough
  \/ \E b \in BlockAddresses : targets(b)

SpecYield == InitYield /\ [][NextYield]_vars

\* C29: the chain labeledBlock follows never holds a block twice; and when
\* it returns, its result is empty iff the block it was called for needs no
\* label, and starts with that block otherwise
C29_FallthroughChainEndsWithoutRepeats ==
  yield.op = "labeledBlock" =>
     /\ \A i \in 1..Len(yield.Result), j \in 1..Len(yield.Result) :
           yield.Result[i] = yield.Result[j] => i = j
     /\ yield.pc = "done" =>
           /\ (yield.Result = <<>>)
                <=> ~yield.Function.BasicBlocks[yield.block]
                       .IsLabelAlwaysRequired
           /\ yield.Result # <<>> => yield.Result[1] = yield.block

\* C30: rendering the targets of a block that has a successor fails no
\* assertion
C30_TargetsFailNoAssertion ==
  (/\ yield.op = "targets"
   /\ yield.Function.BasicBlocks[yield.block].Successors # {})
     => yield.html.assertion = "none"

====
